---- MODULE Spec2Model ----
(***************************************************************************)
(* A model of the llmapi coding agent: the action validator and executor   *)
(* (package agent) and the streaming response consumer (package ollama,    *)
(* Agent.SendMessage).                                                     *)
(*                                                                         *)
(* Go strings are modelled as sequences of one-character tokens, so that   *)
(* strings.Contains, strings.Replace, strings.Fields, strings.TrimSpace    *)
(* and filepath.Join are computed the way the library computes them.       *)
(***************************************************************************)
EXTENDS Integers, Sequences, FiniteSets, TLC

VARIABLES
    pc,            \* position of the ExecuteActions call: "idle", "loop", "done"
    impl,          \* which copy of ExecuteActions runs: "collect" or "abort"
    actions,       \* the []Action argument
    idx,           \* 1-based index of the next action of the range loop
    failed,        \* the local slice `failed []error`
    fs,            \* the filesystem: absolute path -> entry
    ctxCancelled,  \* ctx.Done() is closed
    result,        \* the error ExecuteActions returned
    validateLog,   \* history: [index, err] of every Validate call, in call order
    executeLog,    \* history: [index, err] of every Execute call, in call order
    touched,       \* history: absolute paths read, created or written by Execute
    spawned,       \* history: indices whose subprocess was started
    spc,           \* position of StreamGenerateWithContext: "start", "scan", "returned"
    lines,         \* the lines of the response body, in the order the server sends them
    pos,           \* 1-based index of the line the next scanner.Scan() reads
    buffered,      \* number of lines the scanner's Read calls have brought in
    delivered,     \* history: [line, text, accepted] of every onChunk call of the client
    userSeen,      \* history: the strings SendMessage passed to its caller's onChunk
    fullResponse,  \* the strings.Builder of SendMessage
    lastChunk,     \* the variable lastChunk of SendMessage (its Response field)
    streamErr,     \* the error StreamGenerateWithContext returned
    response,      \* the argument of ActionParser.Parse
    parses,        \* history: what each call of Parse returned, in call order
    apc,           \* position of SendMessage: "idle", "streaming", "executing", "returned"
    conversationHistory,  \* Agent.conversationHistory
    pendingActions,       \* Agent.pendingActions
    autoExecuteActions,   \* Agent.autoExecuteActions
    sendErr,       \* the error SendMessage returned
    rpc,           \* position of the loop of RunREPL: "read", "command", "send", "execute"
    input,         \* the line ReadString returned, trimmed
    inputs,        \* number of lines read so far
    ctxSeq,        \* number of contexts WithCancel has made: the newest one's id
    currentCancel, \* the variable currentCancel: 0 for nil, or the id of its context
    cancelledCtxs, \* the ids of the contexts whose cancel function was called
    sigChan,       \* the signals buffered in sigChan
    signals,       \* number of interrupt signals delivered so far
    gpc,           \* position of the signal goroutine: "wait", "check", "call"
    gSig,          \* history: the signal the goroutine is handling
    report,        \* what the loop printed for the last input line
    applied        \* history: indices of pendingActions already executed with success

execVars == <<pc, impl, actions, idx, failed, fs, ctxCancelled, result,
              validateLog, executeLog, touched, spawned>>

streamVars == <<spc, lines, pos, buffered, delivered, userSeen, fullResponse, lastChunk,
                streamErr>>

parseVars == <<response, parses>>

agentVars == <<apc, conversationHistory, pendingActions, autoExecuteActions,
               sendErr>>

replVars == <<rpc, input, inputs, ctxSeq, currentCancel, cancelledCtxs, sigChan,
              signals, gpc, gSig, report, applied>>

vars == <<execVars, streamVars, parseVars, agentVars, replVars>>

(***************************************************************************)
(* Bounds.                                                                 *)
(***************************************************************************)
MaxActions == 3
MaxLines == 3
MaxSegments == 3
MaxParseCalls == 2
MaxInputs == 3
MaxSignals == 1

(***************************************************************************)
(* Strings.                                                                *)
(***************************************************************************)
NilErr == "nil"

\* strings.Contains(s, sub)
Contains(s, sub) ==
    \E k \in 1..(Len(s) - Len(sub) + 1) : SubSeq(s, k, k + Len(sub) - 1) = sub

\* strings.Index(s, sub), 1-based; 0 when sub does not occur
Index(s, sub) ==
    IF Contains(s, sub)
    THEN CHOOSE k \in 1..(Len(s) - Len(sub) + 1) :
            /\ SubSeq(s, k, k + Len(sub) - 1) = sub
            /\ \A j \in 1..(k - 1) : SubSeq(s, j, j + Len(sub) - 1) # sub
    ELSE 0

\* a replacement of the last occurrence instead of the first
ReplaceLast(s, old, new) ==
    LET at == {k \in 1..(Len(s) - Len(old) + 1) :
                  SubSeq(s, k, k + Len(old) - 1) = old}
        k == CHOOSE m \in at : \A n \in at : n <= m
    IN  IF at = {} THEN s
        ELSE SubSeq(s, 1, k - 1) \o new \o SubSeq(s, k + Len(old), Len(s))

\* strings.Replace(s, old, new, 1)
ReplaceFirst(s, old, new) ==
    LET k == Index(s, old)
    IN  IF k = 0 THEN s
        ELSE SubSeq(s, 1, k - 1) \o new \o SubSeq(s, k + Len(old), Len(s))

\* unicode.IsSpace on the characters that occur: blank and newline
IsSpace(c) == c \in {" ", "\n"}

\* strings.Fields(s): the maximal runs of non-space characters
RECURSIVE FieldsFrom(_, _, _)
FieldsFrom(s, k, cur) ==
    IF k > Len(s)
    THEN IF cur = <<>> THEN <<>> ELSE <<cur>>
    ELSE IF IsSpace(s[k])
         THEN (IF cur = <<>> THEN <<>> ELSE <<cur>>) \o FieldsFrom(s, k + 1, <<>>)
         ELSE FieldsFrom(s, k + 1, Append(cur, s[k]))

Fields(s) == FieldsFrom(s, 1, <<>>)

(***************************************************************************)
(* Paths.  An absolute path is a sequence of segments, a segment a string. *)
(***************************************************************************)
\* the elements of a path string between its separators
RECURSIVE SplitFrom(_, _, _)
SplitFrom(s, k, cur) ==
    IF k > Len(s) THEN <<cur>>
    ELSE IF s[k] = "/"
         THEN <<cur>> \o SplitFrom(s, k + 1, <<>>)
         ELSE SplitFrom(s, k + 1, Append(cur, s[k]))

SplitPath(s) == SplitFrom(s, 1, <<>>)

\* filepath.Clean on a rooted path: drops "" and ".", lets ".." remove the
\* element before it, and drops a ".." that would climb above the root
RECURSIVE CleanFrom(_, _)
CleanFrom(base, segs) ==
    IF segs = <<>> THEN base
    ELSE LET h == Head(segs)
         IN  IF h = <<>> \/ h = <<".">>
             THEN CleanFrom(base, Tail(segs))
             ELSE IF h = <<".", ".">>
                  THEN CleanFrom(IF base = <<>> THEN <<>>
                                 ELSE SubSeq(base, 1, Len(base) - 1), Tail(segs))
                  ELSE CleanFrom(Append(base, h), Tail(segs))

\* filepath.Join(workDir, path) for an absolute, clean workDir
Join(workDir, path) == CleanFrom(workDir, SplitPath(path))

\* filepath.Dir of an absolute clean path
Dir(p) == IF p = <<>> THEN <<>> ELSE SubSeq(p, 1, Len(p) - 1)

\* p lies strictly beneath root
Beneath(root, p) == Len(p) > Len(root) /\ SubSeq(p, 1, Len(root)) = root

(***************************************************************************)
(* The filesystem.                                                         *)
(***************************************************************************)
DirEntry == [dir |-> TRUE, data |-> <<>>]
FileEntry(data) == [dir |-> FALSE, data |-> data]

Put(f, p, e) == [q \in DOMAIN f \cup {p} |-> IF q = p THEN e ELSE f[q]]

Prefixes(p) == {SubSeq(p, 1, k) : k \in 0..Len(p)}

\* os.Mkdir in the place of os.MkdirAll: an existing p is an error
MkdirAllExclusive(f, p) ==
    IF p \in DOMAIN f \/ \E q \in Prefixes(p) : q \in DOMAIN f /\ ~f[q].dir
    THEN [err |-> "file exists", fs |-> f, made |-> {}]
    ELSE [err |-> NilErr,
          fs |-> [q \in DOMAIN f \cup Prefixes(p) |->
                     IF q \in DOMAIN f THEN f[q] ELSE DirEntry],
          made |-> Prefixes(p) \ DOMAIN f]

\* os.MkdirAll(p): fails when p or a parent of p exists and is not a directory
MkdirAll(f, p) ==
    IF \E q \in Prefixes(p) : q \in DOMAIN f /\ ~f[q].dir
    THEN [err |-> "not a directory", fs |-> f, made |-> {}]
    ELSE [err |-> NilErr,
          fs |-> [q \in DOMAIN f \cup Prefixes(p) |->
                     IF q \in DOMAIN f THEN f[q] ELSE DirEntry],
          made |-> Prefixes(p) \ DOMAIN f]

\* a write that leaves an existing file as it is
WriteFileKeepingExisting(f, p, data) ==
    IF \/ Dir(p) \notin DOMAIN f
       \/ ~f[Dir(p)].dir
       \/ (p \in DOMAIN f /\ f[p].dir)
    THEN [err |-> "open failed", fs |-> f]
    ELSE [err |-> NilErr,
          fs |-> IF p \in DOMAIN f THEN f ELSE Put(f, p, FileEntry(data))]

\* os.WriteFile(p, data): creates or truncates the file p
WriteFile(f, p, data) ==
    IF \/ Dir(p) \notin DOMAIN f
       \/ ~f[Dir(p)].dir
       \/ (p \in DOMAIN f /\ f[p].dir)
    THEN [err |-> "open failed", fs |-> f]
    ELSE [err |-> NilErr, fs |-> Put(f, p, FileEntry(data))]

\* os.ReadFile(p)
ReadFile(f, p) ==
    IF p \in DOMAIN f /\ ~f[p].dir
    THEN [err |-> NilErr, data |-> f[p].data]
    ELSE [err |-> "read failed", data |-> <<>>]

(***************************************************************************)
(* Actions.  Every variant is a record with the same fields; the fields a  *)
(* variant does not have are empty.                                        *)
(***************************************************************************)
CreateFileAction(path, content) ==
    [type |-> "CreateFile", Path |-> path, Content |-> content,
     Command |-> <<>>, Search |-> <<>>, Replace |-> <<>>]
CreateDirectoryAction(path) ==
    [type |-> "CreateDirectory", Path |-> path, Content |-> <<>>,
     Command |-> <<>>, Search |-> <<>>, Replace |-> <<>>]
ExecuteCommandAction(command) ==
    [type |-> "ExecuteCommand", Path |-> <<>>, Content |-> <<>>,
     Command |-> command, Search |-> <<>>, Replace |-> <<>>]
ModifyFileAction(path, search, replace) ==
    [type |-> "ModifyFile", Path |-> path, Content |-> <<>>,
     Command |-> <<>>, Search |-> search, Replace |-> replace]
ReadFileAction(path) ==
    [type |-> "ReadFile", Path |-> path, Content |-> <<>>,
     Command |-> <<>>, Search |-> <<>>, Replace |-> <<>>]

PathBearing == {"CreateFile", "CreateDirectory", "ModifyFile", "ReadFile"}

DotDot == <<".", ".">>

CreateFileValidate(a) ==
    IF a.Path = <<>> THEN "file path cannot be empty"
    ELSE IF Contains(a.Path, DotDot) THEN "file path cannot contain '..'"
    ELSE NilErr

ExecuteCommandValidate(a) ==
    IF a.Command = <<>> THEN "command cannot be empty" ELSE NilErr

CreateDirectoryValidate(a) ==
    IF a.Path = <<>> THEN "directory path cannot be empty"
    ELSE IF Contains(a.Path, DotDot) THEN "directory path cannot contain '..'"
    ELSE NilErr

\* a validator that forgets the search text
ModifyFileValidatePathOnly(a) ==
    IF a.Path = <<>> THEN "file path cannot be empty" ELSE NilErr

ModifyFileValidate(a) ==
    IF a.Path = <<>> THEN "file path cannot be empty"
    ELSE IF a.Search = <<>> THEN "search string cannot be empty"
    ELSE NilErr

ReadFileValidate(a) ==
    IF a.Path = <<>> THEN "file path cannot be empty" ELSE NilErr

\* Action.Validate, dispatched on the dynamic type
Validate(a) ==
    CASE a.type = "CreateFile" -> CreateFileValidate(a)
      [] a.type = "ExecuteCommand" -> ExecuteCommandValidate(a)
      [] a.type = "CreateDirectory" -> CreateDirectoryValidate(a)
      [] a.type = "ModifyFile" -> ModifyFileValidate(a)
      [] a.type = "ReadFile" -> ReadFileValidate(a)

(***************************************************************************)
(* Execute.  Each operator gives the returned error, the filesystem after  *)
(* the call, the paths the call read, created or wrote, and whether a      *)
(* subprocess was started.                                                 *)
(***************************************************************************)
Outcome(err, f, paths, started) ==
    [err |-> err, fs |-> f, touched |-> paths, spawned |-> started]

\* a CreateFile that does not overwrite
CreateFileExecuteKeepingExisting(a, f, workDir) ==
    LET fullPath == Join(workDir, a.Path)
        mk == MkdirAll(f, Dir(fullPath))
        wr == WriteFileKeepingExisting(mk.fs, fullPath, a.Content)
    IN  IF mk.err # NilErr
        THEN Outcome("failed to create directory", f, {}, FALSE)
        ELSE IF wr.err # NilErr
             THEN Outcome("failed to write file", mk.fs, mk.made, FALSE)
             ELSE Outcome(NilErr, wr.fs, mk.made \cup {fullPath}, FALSE)

CreateFileExecute(a, f, workDir) ==
    LET fullPath == Join(workDir, a.Path)
        mk == MkdirAll(f, Dir(fullPath))
        wr == WriteFile(mk.fs, fullPath, a.Content)
    IN  IF mk.err # NilErr
        THEN Outcome("failed to create directory", f, {}, FALSE)
        ELSE IF wr.err # NilErr
             THEN Outcome("failed to write file", mk.fs, mk.made, FALSE)
             ELSE Outcome(NilErr, wr.fs, mk.made \cup {fullPath}, FALSE)

\* the subprocess runs only when the command has a program name and the
\* context is not yet cancelled (exec.Cmd.Start returns ctx.Err() otherwise)
StartsProcess(a, cancelled) ==
    a.type = "ExecuteCommand" /\ Fields(a.Command) # <<>> /\ ~cancelled

\* how a started subprocess ends: exit status 0, a failure, or killed because
\* the context was cancelled while it ran
ProcessOutcomes == {"exit0", "exit1", "killed"}

ExecuteCommandExecute(a, f, cancelled, outcome) ==
    IF Fields(a.Command) = <<>>
    THEN Outcome("empty command", f, {}, FALSE)
    ELSE IF cancelled
         THEN Outcome("command failed: context canceled", f, {}, FALSE)
         ELSE IF outcome = "exit0"
              THEN Outcome(NilErr, f, {}, TRUE)
              ELSE IF outcome = "killed"
                   THEN Outcome("command failed: signal: killed", f, {}, TRUE)
                   ELSE Outcome("command failed: exit status 1", f, {}, TRUE)

CreateDirectoryExecute(a, f, workDir) ==
    LET fullPath == Join(workDir, a.Path)
        mk == MkdirAll(f, fullPath)
    IN  IF mk.err # NilErr
        THEN Outcome("failed to create directory", f, {}, FALSE)
        ELSE Outcome(NilErr, mk.fs, mk.made, FALSE)

\* a ModifyFile that empties the file when the search text is not in it
ModifyFileExecuteTruncating(a, f, workDir) ==
    LET fullPath == Join(workDir, a.Path)
        rd == ReadFile(f, fullPath)
        newContent == ReplaceFirst(rd.data, a.Search, a.Replace)
        wr == WriteFile(f, fullPath, newContent)
    IN  IF rd.err # NilErr
        THEN Outcome("failed to read file", f, {}, FALSE)
        ELSE IF newContent = rd.data
             THEN Outcome("search string not found in file",
                          WriteFile(f, fullPath, <<>>).fs, {fullPath}, FALSE)
             ELSE IF wr.err # NilErr
                  THEN Outcome("failed to write file", f, {fullPath}, FALSE)
                  ELSE Outcome(NilErr, wr.fs, {fullPath}, FALSE)

ModifyFileExecute(a, f, workDir) ==
    LET fullPath == Join(workDir, a.Path)
        rd == ReadFile(f, fullPath)
        newContent == ReplaceFirst(rd.data, a.Search, a.Replace)
        wr == WriteFile(f, fullPath, newContent)
    IN  IF rd.err # NilErr
        THEN Outcome("failed to read file", f, {}, FALSE)
        ELSE IF newContent = rd.data
             THEN Outcome("search string not found in file", f, {fullPath}, FALSE)
             ELSE IF wr.err # NilErr
                  THEN Outcome("failed to write file", f, {fullPath}, FALSE)
                  ELSE Outcome(NilErr, wr.fs, {fullPath}, FALSE)

\* a ReadFile that empties the file it has read
ReadFileExecuteTruncating(a, f, workDir) ==
    LET fullPath == Join(workDir, a.Path)
        rd == ReadFile(f, fullPath)
    IN  IF rd.err # NilErr
        THEN Outcome("failed to read file", f, {}, FALSE)
        ELSE Outcome(NilErr, WriteFile(f, fullPath, <<>>).fs, {fullPath}, FALSE)

ReadFileExecute(a, f, workDir) ==
    LET fullPath == Join(workDir, a.Path)
        rd == ReadFile(f, fullPath)
    IN  IF rd.err # NilErr
        THEN Outcome("failed to read file", f, {}, FALSE)
        ELSE Outcome(NilErr, f, {fullPath}, FALSE)

\* Action.Execute, dispatched on the dynamic type
Execute(a, f, workDir, cancelled, outcome) ==
    CASE a.type = "CreateFile" -> CreateFileExecute(a, f, workDir)
      [] a.type = "ExecuteCommand" -> ExecuteCommandExecute(a, f, cancelled, outcome)
      [] a.type = "CreateDirectory" -> CreateDirectoryExecute(a, f, workDir)
      [] a.type = "ModifyFile" -> ModifyFileExecute(a, f, workDir)
      [] a.type = "ReadFile" -> ReadFileExecute(a, f, workDir)

(***************************************************************************)
(* The inputs: the working directory, the files present before the call    *)
(* and the actions a response can carry.                                   *)
(***************************************************************************)
WorkDir == <<<<"w">>>>

\* the file "/s" lies outside the working directory "/w"
InitFS ==
    [p \in {<<>>, WorkDir, <<<<"s">>>>} |->
        IF p = <<<<"s">>>> THEN FileEntry(<<"x">>) ELSE DirEntry]

PathEmpty == <<>>
PathA == <<"a">>
PathInA == <<"a", "/", "a">>
PathUp == <<".", ".", "/", "s">>

Actions ==
    {CreateFileAction(p, <<"x", "x">>) : p \in {PathEmpty, PathA, PathInA, PathUp}}
    \cup {CreateDirectoryAction(p) : p \in {PathEmpty, PathA, PathInA, PathUp}}
    \cup {ExecuteCommandAction(c) : c \in {<<>>, <<" ">>, <<"e">>}}
    \cup {ModifyFileAction(p, s, <<"y">>) :
             p \in {PathEmpty, PathA, PathUp}, s \in {<<>>, <<"x">>}}
    \cup {ModifyFileAction(PathA, <<"x">>, <<"x">>)}
    \cup {ReadFileAction(p) : p \in {PathEmpty, PathA, PathUp}}

ActionLists == UNION {[1..n -> Actions] : n \in 0..MaxActions}

(***************************************************************************)
(* ExecuteActions.  The repository holds two copies of the function: the   *)
(* one that collects the failures and goes on ("collect") and the one that *)
(* returns at the first failure ("abort").  One step of the model is one   *)
(* iteration of the range loop.                                            *)
(***************************************************************************)
NoResult == [returned |-> FALSE, ok |-> FALSE, msg |-> "", count |-> 0,
             index |-> 0, cause |-> "", errors |-> <<>>]

\* return nil
Success == [returned |-> TRUE, ok |-> TRUE, msg |-> "", count |-> 0,
            index |-> 0, cause |-> "", errors |-> <<>>]

\* fmt.Errorf("completed with %d failure(s)", len(failed)): the error value
\* holds the count and wraps none of the collected errors
CompletedWithFailures(n) ==
    [returned |-> TRUE, ok |-> FALSE, msg |-> "completed with failure(s)",
     count |-> n, index |-> 0, cause |-> "", errors |-> <<>>]

\* fmt.Errorf("validation failed for action %d: %w", i+1, err) and
\* fmt.Errorf("execution failed for action %d: %w", i+1, err)
ActionError(kind, i, err) == [index |-> i, kind |-> kind, cause |-> err]

FailedAt(kind, i, err) ==
    [returned |-> TRUE, ok |-> FALSE, msg |-> kind, count |-> 0,
     index |-> i, cause |-> err, errors |-> <<ActionError(kind, i, err)>>]

ExecInit ==
    /\ pc = "idle"
    /\ impl = "collect"
    /\ actions = <<>>
    /\ idx = 1
    /\ failed = <<>>
    /\ fs = InitFS
    /\ ctxCancelled = FALSE
    /\ result = NoResult
    /\ validateLog = <<>>
    /\ executeLog = <<>>
    /\ touched = {}
    /\ spawned = <<>>

\* a caller invokes one of the two copies on an action list
CallExecuteActions ==
    /\ pc = "idle"
    /\ \E list \in ActionLists, which \in {"collect", "abort"} :
          /\ actions' = list
          /\ impl' = which
    /\ pc' = "loop"
    /\ UNCHANGED <<idx, failed, fs, ctxCancelled, result, validateLog,
                   executeLog, touched, spawned>>
    /\ UNCHANGED streamVars
    /\ UNCHANGED <<parseVars, agentVars, replVars>>

\* the caller cancels the context while the call is in progress
CancelContext ==
    /\ pc = "loop"
    /\ ~ctxCancelled
    /\ ctxCancelled' = TRUE
    /\ UNCHANGED <<pc, impl, actions, idx, failed, fs, result, validateLog,
                   executeLog, touched, spawned>>
    /\ UNCHANGED streamVars
    /\ UNCHANGED <<parseVars, agentVars, replVars>>

\* a loop body that takes an Execute error for success
RunActionIgnoringExecuteError(i, outcome) ==
    LET a == actions[i]
        verr == Validate(a)
        r == Execute(a, fs, WorkDir, ctxCancelled, outcome)
    IN  IF verr # NilErr
        THEN [kind |-> "validation failed", verr |-> verr, err |-> verr,
              executed |-> FALSE,
              fs |-> fs, touched |-> {}, spawned |-> FALSE]
        ELSE [kind |-> "", verr |-> verr, err |-> r.err, executed |-> TRUE,
              fs |-> r.fs, touched |-> r.touched, spawned |-> r.spawned]

\* a loop body that records the validation failure but executes all the same
RunActionExecutingInvalid(i, outcome) ==
    LET a == actions[i]
        verr == Validate(a)
        r == Execute(a, fs, WorkDir, ctxCancelled, outcome)
    IN  [kind |-> IF verr # NilErr THEN "validation failed"
                  ELSE IF r.err # NilErr THEN "execution failed" ELSE "",
         verr |-> verr, err |-> IF verr # NilErr THEN verr ELSE r.err,
         executed |-> TRUE,
         fs |-> r.fs, touched |-> r.touched, spawned |-> r.spawned]

\* the body of the loop up to the error checks: Validate, and Execute only
\* when Validate returned nil.  kind is "" when the action completed.
RunAction(i, outcome) ==
    LET a == actions[i]
        verr == Validate(a)
        r == Execute(a, fs, WorkDir, ctxCancelled, outcome)
    IN  IF verr # NilErr
        THEN [kind |-> "validation failed", verr |-> verr, err |-> verr,
              executed |-> FALSE,
              fs |-> fs, touched |-> {}, spawned |-> FALSE]
        ELSE [kind |-> IF r.err # NilErr THEN "execution failed" ELSE "",
              verr |-> verr, err |-> r.err, executed |-> TRUE,
              fs |-> r.fs, touched |-> r.touched, spawned |-> r.spawned]

\* the ways the action at index i can end: a started subprocess ends in one
\* of ProcessOutcomes, anything else is deterministic
OutcomesAt(i) ==
    IF Validate(actions[i]) = NilErr /\ StartsProcess(actions[i], ctxCancelled)
    THEN ProcessOutcomes ELSE {"none"}

\* the effects of one iteration that both copies share
Iteration(i, outcome, step) ==
    /\ validateLog' = Append(validateLog, [index |-> i, err |-> step.verr])
    /\ executeLog' = IF step.executed
                     THEN Append(executeLog, [index |-> i, err |-> step.err])
                     ELSE executeLog
    /\ fs' = step.fs
    /\ touched' = touched \cup step.touched
    /\ spawned' = IF step.spawned THEN Append(spawned, i) ELSE spawned
    /\ ctxCancelled' = (ctxCancelled \/ outcome = "killed")

\* one iteration of the loop of the copy that collects the failures
ExecuteActionsStep ==
    /\ pc = "loop"
    /\ impl = "collect"
    /\ idx <= Len(actions)
    /\ \E outcome \in OutcomesAt(idx) :
          LET step == RunAction(idx, outcome)
          IN  /\ Iteration(idx, outcome, step)
              /\ failed' = IF step.kind # ""
                           THEN Append(failed, ActionError(step.kind, idx, step.err))
                           ELSE failed
    /\ idx' = idx + 1
    /\ UNCHANGED <<pc, impl, actions, result>>
    /\ UNCHANGED streamVars
    /\ UNCHANGED <<parseVars, agentVars, replVars>>

\* after the loop of the copy that collects the failures
ExecuteActionsReturn ==
    /\ pc = "loop"
    /\ impl = "collect"
    /\ idx > Len(actions)
    /\ result' = IF Len(failed) > 0 THEN CompletedWithFailures(Len(failed))
                 ELSE Success
    /\ pc' = "done"
    /\ UNCHANGED <<impl, actions, idx, failed, fs, ctxCancelled, validateLog,
                   executeLog, touched, spawned>>
    /\ UNCHANGED streamVars
    /\ UNCHANGED <<parseVars, agentVars, replVars>>

\* one iteration of the loop of the copy that returns at the first failure
AbortingExecuteActionsStep ==
    /\ pc = "loop"
    /\ impl = "abort"
    /\ idx <= Len(actions)
    /\ \E outcome \in OutcomesAt(idx) :
          LET step == RunAction(idx, outcome)
          IN  /\ Iteration(idx, outcome, step)
              /\ result' = IF step.kind # ""
                           THEN FailedAt(step.kind, idx, step.err)
                           ELSE result
              /\ pc' = IF step.kind # "" THEN "done" ELSE pc
    /\ idx' = idx + 1
    /\ UNCHANGED <<impl, actions, failed>>
    /\ UNCHANGED streamVars
    /\ UNCHANGED <<parseVars, agentVars, replVars>>

\* after the loop of the copy that returns at the first failure
AbortingExecuteActionsReturn ==
    /\ pc = "loop"
    /\ impl = "abort"
    /\ idx > Len(actions)
    /\ result' = Success
    /\ pc' = "done"
    /\ UNCHANGED <<impl, actions, idx, failed, fs, ctxCancelled, validateLog,
                   executeLog, touched, spawned>>
    /\ UNCHANGED streamVars
    /\ UNCHANGED <<parseVars, agentVars, replVars>>

(***************************************************************************)
(* The response stream.  A line of the body is a string; the JSON objects  *)
(* that occur in it are single tokens, decoded by the table JsonFields.    *)
(***************************************************************************)
RECURSIVE TrimLeft(_)
TrimLeft(s) == IF s # <<>> /\ IsSpace(Head(s)) THEN TrimLeft(Tail(s)) ELSE s

RECURSIVE TrimRight(_)
TrimRight(s) ==
    IF s # <<>> /\ IsSpace(s[Len(s)]) THEN TrimRight(SubSeq(s, 1, Len(s) - 1)) ELSE s

\* strings.TrimSpace(s)
TrimSpace(s) == TrimRight(TrimLeft(s))

JNull == "null"
JEmpty == "{}"
JResponse == "{\"response\":\"h\"}"
JDelta == "{\"delta\":\"i\"}"
JResponseDone == "{\"response\":\"h\",\"done\":true}"
JDone == "{\"done\":true}"
JError == "{\"error\":\"e\"}"
JResponseError == "{\"response\":\"h\",\"error\":\"e\"}"
JDoneError == "{\"done\":true,\"error\":\"e\"}"
JSpaced == "{\"response\":\" h\"}"
JNestedEmpty == "{\"response\":\"{}\"}"
JNestedResponse == "{\"response\":\"{\\\"response\\\":\\\"h\\\"}\"}"

JsonTokens == {JNull, JEmpty, JResponse, JDelta, JResponseDone, JDone, JError,
               JResponseError, JDoneError, JSpaced, JNestedEmpty, JNestedResponse}

\* the members a JSON token sets, with their values
JsonFields(tok) ==
    CASE tok = JResponse -> [has |-> {"response"}, response |-> <<"h">>,
                             delta |-> <<>>, done |-> FALSE, error |-> <<>>]
      [] tok = JDelta -> [has |-> {"delta"}, response |-> <<>>,
                          delta |-> <<"i">>, done |-> FALSE, error |-> <<>>]
      [] tok = JResponseDone -> [has |-> {"response", "done"}, response |-> <<"h">>,
                                 delta |-> <<>>, done |-> TRUE, error |-> <<>>]
      [] tok = JDone -> [has |-> {"done"}, response |-> <<>>,
                         delta |-> <<>>, done |-> TRUE, error |-> <<>>]
      [] tok = JError -> [has |-> {"error"}, response |-> <<>>,
                          delta |-> <<>>, done |-> FALSE, error |-> <<"e">>]
      [] tok = JResponseError -> [has |-> {"response", "error"}, response |-> <<"h">>,
                                  delta |-> <<>>, done |-> FALSE, error |-> <<"e">>]
      [] tok = JDoneError -> [has |-> {"done", "error"}, response |-> <<>>,
                              delta |-> <<>>, done |-> TRUE, error |-> <<"e">>]
      [] tok = JSpaced -> [has |-> {"response"}, response |-> <<" ", "h">>,
                           delta |-> <<>>, done |-> FALSE, error |-> <<>>]
      [] tok = JNestedEmpty -> [has |-> {"response"}, response |-> <<JEmpty>>,
                                delta |-> <<>>, done |-> FALSE, error |-> <<>>]
      [] tok = JNestedResponse -> [has |-> {"response"}, response |-> <<JResponse>>,
                                   delta |-> <<>>, done |-> FALSE, error |-> <<>>]
      [] OTHER -> [has |-> {}, response |-> <<>>,
                   delta |-> <<>>, done |-> FALSE, error |-> <<>>]

\* json.Unmarshal of a string into a struct: it succeeds when the string,
\* surrounding white space apart, is one JSON object or null
IsJson(s) == Len(TrimSpace(s)) = 1 /\ TrimSpace(s)[1] \in JsonTokens

\* json.Unmarshal([]byte(line), &chunk) for the chunk struct of the client,
\* which is declared in the loop body and so starts out zero
UnmarshalChunk(line) ==
    LET f == JsonFields(TrimSpace(line)[1])
    IN  [Response |-> f.response, Delta |-> f.delta, Done |-> f.done,
         Error |-> f.error]

\* json.Unmarshal([]byte(chunk), &lastChunk): a member the JSON does not name
\* keeps the value lastChunk had
UnmarshalGenerateResponse(s, last) ==
    LET f == JsonFields(TrimSpace(s)[1])
    IN  [Response |-> IF "response" \in f.has THEN f.response ELSE last.Response]

\* the bodies a server can send
LineCreateFile ==
    <<"<create_file>", "<path>", "a", "</path>", "<content>", "x", "</content>",
      "</create_file>">>

Lines ==
    {<<>>, <<" ">>, <<"h">>, <<" ", "h", " ">>, <<"h", " ", "i">>, LineCreateFile}
    \cup {<<tok>> : tok \in JsonTokens}

Bodies == UNION {[1..n -> Lines] : n \in 0..MaxLines}

NoErr == [kind |-> "none", detail |-> <<>>]
ReturnNil == [kind |-> "nil", detail |-> <<>>]
\* fmt.Errorf("stream error: %s", chunk.Error)
StreamError(text) == [kind |-> "stream error", detail |-> text]
\* the error the callback returned, returned as it is
CallbackError == [kind |-> "callback error", detail |-> <<>>]
\* fmt.Errorf("error reading stream: %w", err)
ReadError(cause) == [kind |-> "error reading stream", detail |-> <<cause>>]
\* the errors returned before the body is read
RequestError(cause) == [kind |-> cause, detail |-> <<>>]
\* fmt.Errorf("failed to send request: %w", err) when the context is cancelled
RequestCancelled == [kind |-> "failed to send request",
                     detail |-> <<"context canceled">>]

StreamInit ==
    /\ spc = "start"
    /\ lines = <<>>
    /\ pos = 1
    /\ buffered = 0
    /\ delivered = <<>>
    /\ userSeen = <<>>
    /\ fullResponse = <<>>
    /\ lastChunk = [Response |-> <<>>]
    /\ streamErr = NoErr

\* a loop body without the continue that ends the JSON branch: the line
\* falls through to the raw-text call
ConsumeLineDeliveringTwice(raw) ==
    LET line == TrimSpace(raw)
        chunk == UnmarshalChunk(line)
        part == IF chunk.Response = <<>> THEN chunk.Delta ELSE chunk.Response
    IN  IF line = <<>> THEN [calls |-> <<>>, end |-> "continue", err |-> NoErr]
        ELSE IF IsJson(line)
        THEN IF chunk.Error # <<>>
             THEN [calls |-> <<>>, end |-> "return", err |-> StreamError(chunk.Error)]
             ELSE IF chunk.Done
                  THEN [calls |-> IF part # <<>> THEN <<part>> ELSE <<>>,
                        end |-> "return", err |-> ReturnNil]
                  ELSE [calls |-> IF part # <<>> THEN <<part, line>> ELSE <<line>>,
                        end |-> "continue", err |-> NoErr]
        ELSE [calls |-> <<line>>, end |-> "continue", err |-> NoErr]

\* a loop body that delivers the text of a chunk before it looks at the
\* error field
ConsumeLineTextBeforeError(raw) ==
    LET line == TrimSpace(raw)
        chunk == UnmarshalChunk(line)
        part == IF chunk.Response = <<>> THEN chunk.Delta ELSE chunk.Response
    IN  IF line = <<>> THEN [calls |-> <<>>, end |-> "continue", err |-> NoErr]
        ELSE IF IsJson(line)
        THEN IF chunk.Error # <<>>
             THEN [calls |-> IF part # <<>> THEN <<part>> ELSE <<>>,
                   end |-> "return", err |-> StreamError(chunk.Error)]
             ELSE [calls |-> IF part # <<>> THEN <<part>> ELSE <<>>,
                   end |-> IF chunk.Done THEN "return" ELSE "continue",
                   err |-> IF chunk.Done THEN ReturnNil ELSE NoErr]
        ELSE [calls |-> <<line>>, end |-> "continue", err |-> NoErr]

\* a loop body that does not look at the completion flag
ConsumeLineIgnoringDone(raw) ==
    LET line == TrimSpace(raw)
        chunk == UnmarshalChunk(line)
        part == IF chunk.Response = <<>> THEN chunk.Delta ELSE chunk.Response
    IN  IF line = <<>> THEN [calls |-> <<>>, end |-> "continue", err |-> NoErr]
        ELSE IF IsJson(line)
        THEN IF chunk.Error # <<>>
             THEN [calls |-> <<>>, end |-> "return", err |-> StreamError(chunk.Error)]
             ELSE [calls |-> IF part # <<>> THEN <<part>> ELSE <<>>,
                   end |-> "continue", err |-> NoErr]
        ELSE [calls |-> <<line>>, end |-> "continue", err |-> NoErr]

\* the body of the scanner loop for one line: the strings passed to onChunk,
\* in order, and how the iteration ends when onChunk returns nil
\* ("continue", or the error returned)
ConsumeLine(raw) ==
    LET line == TrimSpace(raw)
        chunk == UnmarshalChunk(line)
        part == IF chunk.Response = <<>> THEN chunk.Delta ELSE chunk.Response
    IN  IF line = <<>> THEN [calls |-> <<>>, end |-> "continue", err |-> NoErr]
        ELSE IF IsJson(line)
        THEN IF chunk.Error # <<>>
             THEN [calls |-> <<>>, end |-> "return", err |-> StreamError(chunk.Error)]
             ELSE [calls |-> IF part # <<>> THEN <<part>> ELSE <<>>,
                   end |-> IF chunk.Done THEN "return" ELSE "continue",
                   err |-> IF chunk.Done THEN ReturnNil ELSE NoErr]
        ELSE [calls |-> <<line>>, end |-> "continue", err |-> NoErr]

\* one call of the onChunk the client was given, wrappedOnChunkWithStats:
\* it decodes the chunk into lastChunk when the chunk is JSON and hands
\* lastChunk.Response, else the chunk itself, to wrappedOnChunk, which
\* appends the string to fullResponse and calls the caller's onChunk
OnChunk(chunk, line, cbFails, st) ==
    LET last == IF IsJson(chunk) THEN UnmarshalGenerateResponse(chunk, st.last)
                ELSE st.last
        text == IF IsJson(chunk) THEN last.Response ELSE chunk
    IN  [delivered |-> Append(st.delivered,
                         [line |-> line, text |-> chunk, accepted |-> ~cbFails]),
         seen |-> Append(st.seen, text),
         full |-> st.full \o text,
         last |-> last]

\* the onChunk calls of one iteration: a call that returns an error ends it
RECURSIVE DeliverAll(_, _, _, _)
DeliverAll(calls, line, cbFails, st) ==
    IF calls = <<>> THEN st
    ELSE LET st1 == OnChunk(Head(calls), line, cbFails, st)
         IN  IF cbFails THEN st1
             ELSE DeliverAll(Tail(calls), line, cbFails, st1)

\* the caller cancels the context of the request while the call is in
\* progress
CancelStream ==
    /\ spc \in {"start", "scan"}
    /\ ~ctxCancelled
    /\ ctxCancelled' = TRUE
    /\ UNCHANGED <<pc, impl, actions, idx, failed, fs, result, validateLog,
                   executeLog, touched, spawned>>
    /\ UNCHANGED streamVars
    /\ UNCHANGED <<parseVars, agentVars, replVars>>

\* the request is sent; the body is read only after a 200 response.  With a
\* cancelled context httpClient.Do returns the context's error.
SendRequest ==
    /\ spc = "start"
    /\ \E outcome \in {"ok", "failed to send request", "unexpected status code"} :
          IF ctxCancelled
          THEN /\ outcome = "failed to send request"
               /\ lines' = lines
               /\ spc' = "returned"
               /\ streamErr' = RequestCancelled
          ELSE IF outcome = "ok"
          THEN /\ \E body \in Bodies : lines' = body
               /\ spc' = "scan"
               /\ streamErr' = streamErr
          ELSE /\ lines' = lines
               /\ spc' = "returned"
               /\ streamErr' = RequestError(outcome)
    /\ UNCHANGED <<pos, buffered, delivered, userSeen, fullResponse, lastChunk>>
    /\ UNCHANGED execVars
    /\ UNCHANGED <<parseVars, agentVars, replVars>>

\* scanner.Scan() finds no complete line in its buffer and calls Read on the
\* response body, which brings in the lines that have arrived: one or more.
\* Read on the body of a request whose context is cancelled returns the
\* context's error instead (ScanFails).
ReadBody ==
    /\ spc = "scan"
    /\ pos > buffered
    /\ buffered < Len(lines)
    /\ ~ctxCancelled
    /\ \E n \in (buffered + 1)..Len(lines) : buffered' = n
    /\ UNCHANGED <<spc, lines, pos, delivered, userSeen, fullResponse, lastChunk,
                   streamErr>>
    /\ UNCHANGED execVars
    /\ UNCHANGED <<parseVars, agentVars, replVars>>

\* an iteration that reports the callback's error as a stream error
ScanLineLabellingCallbackError ==
    /\ spc = "scan"
    /\ pos <= buffered
    /\ \E cbFails \in BOOLEAN :
          LET c == ConsumeLine(lines[pos])
              st == DeliverAll(c.calls, pos, cbFails,
                               [delivered |-> delivered, seen |-> userSeen,
                                full |-> fullResponse, last |-> lastChunk])
              cbErr == cbFails /\ c.calls # <<>>
          IN  /\ cbFails => c.calls # <<>>
              /\ delivered' = st.delivered
              /\ userSeen' = st.seen
              /\ fullResponse' = st.full
              /\ lastChunk' = st.last
              /\ spc' = IF cbErr \/ c.end = "return" THEN "returned" ELSE "scan"
              /\ streamErr' = IF cbErr THEN StreamError(<<>>) ELSE c.err
    /\ pos' = pos + 1
    /\ UNCHANGED <<lines, buffered>>
    /\ UNCHANGED execVars
    /\ UNCHANGED <<parseVars, agentVars, replVars>>

\* scanner.Scan() returns a line: one iteration of the loop.  cbFails says
\* whether the caller's onChunk returns an error in this iteration.
ScanLine ==
    /\ spc = "scan"
    /\ pos <= buffered
    /\ \E cbFails \in BOOLEAN :
          LET c == ConsumeLine(lines[pos])
              st == DeliverAll(c.calls, pos, cbFails,
                               [delivered |-> delivered, seen |-> userSeen,
                                full |-> fullResponse, last |-> lastChunk])
              cbErr == cbFails /\ c.calls # <<>>
          IN  /\ cbFails => c.calls # <<>>
              /\ delivered' = st.delivered
              /\ userSeen' = st.seen
              /\ fullResponse' = st.full
              /\ lastChunk' = st.last
              /\ spc' = IF cbErr \/ c.end = "return" THEN "returned" ELSE "scan"
              /\ streamErr' = IF cbErr THEN CallbackError ELSE c.err
    /\ pos' = pos + 1
    /\ UNCHANGED <<lines, buffered>>
    /\ UNCHANGED execVars
    /\ UNCHANGED <<parseVars, agentVars, replVars>>

\* scanner.Scan() returns false at the end of the body: every line was
\* handed out and the next Read returned io.EOF.  Read on the body of a
\* request whose context is cancelled returns the context's error instead
\* (ScanFails).
ScanEnd ==
    /\ spc = "scan"
    /\ pos > Len(lines)
    /\ buffered = Len(lines)
    /\ ~ctxCancelled
    /\ spc' = "returned"
    /\ streamErr' = ReturnNil
    /\ UNCHANGED <<lines, pos, buffered, delivered, userSeen, fullResponse,
                   lastChunk>>
    /\ UNCHANGED execVars
    /\ UNCHANGED <<parseVars, agentVars, replVars>>

\* scanner.Scan() returns false because Read failed: the context was
\* cancelled or the connection broke.  The scanner calls Read only when its
\* buffer holds no complete line, so the lines already brought in are handed
\* out first.
ScanFails ==
    /\ spc = "scan"
    /\ pos > buffered
    /\ \E cause \in {"context canceled", "unexpected EOF"} :
          /\ cause = "context canceled" <=> ctxCancelled
          /\ streamErr' = ReadError(cause)
    /\ spc' = "returned"
    /\ UNCHANGED <<lines, pos, buffered, delivered, userSeen, fullResponse,
                   lastChunk>>
    /\ UNCHANGED execVars
    /\ UNCHANGED <<parseVars, agentVars, replVars>>

(***************************************************************************)
(* Regular expressions.  The markup of a response is made of tokens: a tag *)
(* such as <path>, a code fence, a comment delimiter, a whole JSON value,  *)
(* a blank, a newline or a letter is one element of the string.  A pattern *)
(* is a sequence of items; Match gives the match that Go's regexp package  *)
(* prefers at a position (leftmost-first: a greedy item takes the longest  *)
(* run that lets the rest match, a lazy item the shortest).                *)
(***************************************************************************)
Lit(t) == [k |-> "lit", t |-> t]
\* \s*
Ws == [k |-> "ws"]
\* (.*?), with the flag s when dotall
Lazy(dotall) == [k |-> "lazy", dotall |-> dotall]
\* (?:sub)?, sub holding ncaps capture groups
Opt(sub, ncaps) == [k |-> "opt", sub |-> sub, ncaps |-> ncaps]
\* (\{.*?\}|\[.*?\])
JsonCap == [k |-> "json"]
\* (\w+)?
WordCap == [k |-> "word"]
\* (\S+)
NonSpaceCap == [k |-> "nonspace"]

\* the three backquotes that open and close a fenced block
Fence == "[fence]"
JArrayFiles == "[{\"path\":\"a\",\"content\":\"x\"},{\"name\":\"b\",\"body\":\"y\"}]"
JArrayPartial == "[{\"path\":\"\",\"name\":\"b\",\"content\":\"x\"},{\"path\":\"a\"}]"
JObjCreateFile == "{\"create_file\":{\"path\":\" a \",\"content\":\"x\"}}"
JObjFiles == "{\"files\":[{\"name\":\"b\",\"content\":\"y\"}]}"
JObjBoth == "{\"create_file\":{\"path\":\"a\",\"content\":\"x\"},\"files\":[{\"path\":\"b\",\"content\":\"y\"}]}"
JObjUpper == "{\"FILES\":[{\"path\":\"b\",\"content\":\"y\"}],\"other\":1}"
JObjByName == "{\"create_file\":{\"name\":\"b\",\"body\":\"y\"}}"

JsonBlockTokens == {JArrayFiles, JArrayPartial, JObjCreateFile, JObjFiles,
                    JObjBoth, JObjUpper, JObjByName}

\* the first and the last character of a token's text
OpensWith(tok) ==
    IF tok \in {JArrayFiles, JArrayPartial} THEN "["
    ELSE IF tok \in (JsonBlockTokens \cup JsonTokens) \ {JNull} THEN "{"
    ELSE "other"

ClosesWith(tok) ==
    IF tok \in {JArrayFiles, JArrayPartial} THEN "]"
    ELSE IF tok \in (JsonBlockTokens \cup JsonTokens) \ {JNull} THEN "}"
    ELSE "other"

\* \w: letters and digits; a language name is one token
IsWord(c) == c \in {"a", "b", "f", "h", "i", "t", "x", "y", "1", "2",
                    "json", "go", "html", "py"}

\* the character classes \s, \w, . without the flag s, and \S
InClass(c, class) ==
    CASE class = "\\s" -> IsSpace(c)
      [] class = "\\w" -> IsWord(c)
      [] class = "." -> c # "\n"
      [] class = "\\S" -> ~IsSpace(c)

\* the first index at or after i whose character is not of the class, or
\* Len(text) + 1
RunEnd(text, i, class) ==
    CHOOSE j \in i..(Len(text) + 1) :
        /\ j = Len(text) + 1 \/ ~InClass(text[j], class)
        /\ \A m \in i..(j - 1) : InClass(text[m], class)

SetMax(S) == CHOOSE m \in S : \A n \in S : n <= m
SetMin(S) == CHOOSE m \in S : \A n \in S : m <= n

Fail == [ok |-> FALSE, end |-> 0, caps |-> <<>>]

\* the rest of the pattern can start at c as far as its first item tells
NextOK(rest, text, c) ==
    \/ rest = <<>>
    \/ rest[1].k # "lit"
    \/ (c <= Len(text) /\ text[c] = rest[1].t)

\* the preferred match of pat that starts at index i: ok, the index after
\* the match, and the text of the capture groups
RECURSIVE Match(_, _, _)
Match(pat, text, i) ==
    IF pat = <<>> THEN [ok |-> TRUE, end |-> i, caps |-> <<>>]
    ELSE
    LET h == Head(pat)
        rest == Tail(pat)
        \* the ends c in S, after which the rest of the pattern matches
        Ends(S) == {c \in S : NextOK(rest, text, c) /\ Match(rest, text, c).ok}
        Capture(c) == LET m == Match(rest, text, c)
                      IN  [ok |-> TRUE, end |-> m.end,
                           caps |-> <<SubSeq(text, i, c - 1)>> \o m.caps]
    IN  CASE h.k = "lit" ->
                IF i <= Len(text) /\ text[i] = h.t
                THEN Match(rest, text, i + 1) ELSE Fail
          [] h.k = "ws" ->
                LET ends == Ends(i..RunEnd(text, i, "\\s"))
                IN  IF ends = {} THEN Fail ELSE Match(rest, text, SetMax(ends))
          [] h.k = "lazy" ->
                LET lim == IF h.dotall THEN Len(text) + 1
                           ELSE RunEnd(text, i, ".")
                    ends == Ends(i..lim)
                IN  IF ends = {} THEN Fail ELSE Capture(SetMin(ends))
          [] h.k = "opt" ->
                LET with == Match(h.sub \o rest, text, i)
                    without == Match(rest, text, i)
                IN  IF with.ok THEN with
                    ELSE IF without.ok
                    THEN [without EXCEPT
                             !.caps = [n \in 1..h.ncaps |-> <<>>] \o @]
                    ELSE Fail
          [] h.k = "json" ->
                IF i > Len(text) \/ OpensWith(text[i]) = "other" THEN Fail
                ELSE LET close == IF OpensWith(text[i]) = "{" THEN "}" ELSE "]"
                         ends == Ends({c \in (i + 1)..(Len(text) + 1) :
                                          ClosesWith(text[c - 1]) = close})
                     IN  IF ends = {} THEN Fail ELSE Capture(SetMin(ends))
          [] h.k = "word" ->
                LET ends == Ends(i..RunEnd(text, i, "\\w"))
                IN  IF ends = {} THEN Fail ELSE Capture(SetMax(ends))
          [] h.k = "nonspace" ->
                LET ends == Ends((i + 1)..RunEnd(text, i, "\\S"))
                IN  IF ends = {} THEN Fail ELSE Capture(SetMax(ends))

\* an index at which a line starts, blanks apart: (?m)^[ \t]*
AtLineStart(text, i) ==
    \A m \in 1..(i - 1) :
        (\A n \in m..(i - 1) : text[n] # "\n") => text[m] = " "

\* the first index at or after i where pat matches, 0 when there is none;
\* anchored tells whether the match has to start a line
FirstMatch(pat, text, i, anchored) ==
    LET starts == {c \in i..Len(text) :
                      /\ NextOK(pat, text, c)
                      /\ anchored => AtLineStart(text, c)
                      /\ Match(pat, text, c).ok}
    IN  IF starts = {} THEN 0 ELSE SetMin(starts)

\* regexp.FindAllStringSubmatch(text, -1): the capture groups of the
\* successive non-overlapping matches, with the index each match starts at
RECURSIVE FindAllFrom(_, _, _)
FindAllFrom(pat, text, i) ==
    LET c == FirstMatch(pat, text, i, FALSE)
        m == Match(pat, text, c)
    IN  IF c = 0 THEN <<>>
        ELSE <<[at |-> c, caps |-> m.caps]>> \o FindAllFrom(pat, text, m.end)

FindAllStringSubmatch(pat, text) == FindAllFrom(pat, text, 1)

\* regexp.FindStringSubmatch(text): the capture groups of the first match
FindStringSubmatch(pat, text, anchored) ==
    LET c == FirstMatch(pat, text, 1, anchored)
    IN  IF c = 0 THEN <<>> ELSE Match(pat, text, c).caps

(***************************************************************************)
(* The action parser.                                                      *)
(***************************************************************************)
createFileRegex ==
    <<Lit("<create_file>"), Ws, Lit("<path>"), Lazy(TRUE), Lit("</path>"), Ws,
      Lit("<content>"), Lazy(TRUE), Lit("</content>"), Ws, Lit("</create_file>")>>

executeCommandRegex ==
    <<Lit("<execute_command>"), Ws, Lit("<command>"), Lazy(TRUE), Lit("</command>"),
      Opt(<<Ws, Lit("<description>"), Lazy(TRUE), Lit("</description>")>>, 1),
      Ws, Lit("</execute_command>")>>

\* without the flag s: the path cannot hold a newline
createDirRegex ==
    <<Lit("<create_directory>"), Ws, Lit("<path>"), Lazy(FALSE), Lit("</path>"), Ws,
      Lit("</create_directory>")>>

modifyFileRegex ==
    <<Lit("<modify_file>"), Ws, Lit("<path>"), Lazy(TRUE), Lit("</path>"), Ws,
      Lit("<search>"), Lazy(TRUE), Lit("</search>"), Ws,
      Lit("<replace>"), Lazy(TRUE), Lit("</replace>"), Ws, Lit("</modify_file>")>>

\* without the flag s: the path cannot hold a newline
readFileRegex ==
    <<Lit("<read_file>"), Ws, Lit("<path>"), Lazy(FALSE), Lit("</path>"), Ws,
      Lit("</read_file>")>>

jsonBlockRegex ==
    <<Lit(Fence), Opt(<<Lit("json")>>, 0), Ws, JsonCap, Ws, Lit(Fence)>>

fencedCodeRegex == <<Lit(Fence), WordCap, Ws, Lazy(TRUE), Ws, Lit(Fence)>>

\* the create-file markers of the fenced code blocks, by comment style
htmlMarkerRegex ==
    <<Lit("<!--"), Ws, Lit("@create-file:"), Ws, NonSpaceCap, Ws, Lit("-->")>>
blockMarkerRegex ==
    <<Lit("/*"), Ws, Lit("@create-file:"), Ws, NonSpaceCap, Ws, Lit("*/")>>
lineMarkerRegex == <<Lit("//"), Ws, Lit("@create-file:"), Ws, NonSpaceCap>>
hashMarkerRegex == <<Lit("#"), Ws, Lit("@create-file:"), Ws, NonSpaceCap>>

\* a member of a decoded JSON object that holds a string, or is absent (a
\* member of another type counts as absent: the type assertion fails)
Str(v) == [set |-> TRUE, v |-> v]
Absent == [set |-> FALSE, v |-> <<>>]
FileObj(path, name, content, body) ==
    [path |-> path, name |-> name, content |-> content, body |-> body]

\* a member of the decoded top-level object
Member(key, kind, obj, items) ==
    [key |-> key, kind |-> kind, obj |-> obj, items |-> items]
NoObj == FileObj(Absent, Absent, Absent, Absent)

\* json.Unmarshal(block, &parsed) into interface{}: the decoded value of a
\* JSON token; the members of an object are listed in document order
JsonValue(tok) ==
    CASE tok = JArrayFiles ->
            [kind |-> "array", members |-> <<>>,
             items |-> <<FileObj(Str(<<"a">>), Absent, Str(<<"x">>), Absent),
                         FileObj(Absent, Str(<<"b">>), Absent, Str(<<"y">>))>>]
      [] tok = JArrayPartial ->
            [kind |-> "array", members |-> <<>>,
             items |-> <<FileObj(Str(<<>>), Str(<<"b">>), Str(<<"x">>), Absent),
                         FileObj(Str(<<"a">>), Absent, Absent, Absent)>>]
      [] tok = JObjCreateFile ->
            [kind |-> "object", items |-> <<>>,
             members |-> <<Member("create_file", "object",
                              FileObj(Str(<<" ", "a", " ">>), Absent,
                                      Str(<<"x">>), Absent), <<>>)>>]
      [] tok = JObjFiles ->
            [kind |-> "object", items |-> <<>>,
             members |-> <<Member("files", "array", NoObj,
                              <<FileObj(Absent, Str(<<"b">>), Str(<<"y">>),
                                        Absent)>>)>>]
      [] tok = JObjBoth ->
            [kind |-> "object", items |-> <<>>,
             members |-> <<Member("create_file", "object",
                              FileObj(Str(<<"a">>), Absent, Str(<<"x">>), Absent),
                              <<>>),
                           Member("files", "array", NoObj,
                              <<FileObj(Str(<<"b">>), Absent, Str(<<"y">>),
                                        Absent)>>)>>]
      [] tok = JObjUpper ->
            [kind |-> "object", items |-> <<>>,
             members |-> <<Member("FILES", "array", NoObj,
                              <<FileObj(Str(<<"b">>), Absent, Str(<<"y">>),
                                        Absent)>>),
                           Member("other", "number", NoObj, <<>>)>>]
      [] tok = JObjByName ->
            [kind |-> "object", items |-> <<>>,
             members |-> <<Member("create_file", "object",
                              FileObj(Absent, Str(<<"b">>), Absent, Str(<<"y">>)),
                              <<>>)>>]
      [] tok \in JsonTokens \ {JNull} ->
            [kind |-> "object", items |-> <<>>,
             members |-> <<Member("response", "string", NoObj, <<>>)>>]
      [] OTHER -> [kind |-> "invalid", items |-> <<>>, members |-> <<>>]

\* strings.ToLower on the keys that occur
ToLower(key) == IF key = "FILES" THEN "files" ELSE key

\* a probe that asks for a path only
FileObjActionsPathOnly(obj, withFallback) ==
    LET path == IF obj.path.set THEN obj.path.v
                ELSE IF withFallback /\ obj.name.set THEN obj.name.v ELSE <<>>
        content == IF obj.content.set THEN obj.content.v
                   ELSE IF withFallback /\ obj.body.set THEN obj.body.v ELSE <<>>
    IN  IF path # <<>>
        THEN <<CreateFileAction(TrimSpace(path), content)>> ELSE <<>>

\* the CreateFile action of one file object, if it has a path and a
\* content; withFallback: name stands in for path and body for content
FileObjActions(obj, withFallback) ==
    LET path == IF obj.path.set THEN obj.path.v
                ELSE IF withFallback /\ obj.name.set THEN obj.name.v ELSE <<>>
        content == IF obj.content.set THEN obj.content.v
                   ELSE IF withFallback /\ obj.body.set THEN obj.body.v ELSE <<>>
    IN  IF path # <<>> /\ content # <<>>
        THEN <<CreateFileAction(TrimSpace(path), content)>> ELSE <<>>

\* an action built from a JSON block, with the place of its source in the
\* block: the index of the top-level member (0 for an element of a
\* top-level array) and the index of the element of the member's array
Built(member, item, a) == [member |-> member, item |-> item, action |-> a]

\* the loop over the elements of an array of file objects
RECURSIVE ItemsActions(_, _, _)
ItemsActions(items, member, n) ==
    IF n > Len(items) THEN <<>>
    ELSE LET acts == FileObjActions(items[n], TRUE)
         IN  (IF acts = <<>> THEN <<>> ELSE <<Built(member, n, acts[1])>>)
             \o ItemsActions(items, member, n + 1)

\* the body of the loop over the top-level keys, for the key of index mi
MemberActions(m, mi) ==
    IF ToLower(m.key) = "create_file"
    THEN IF m.kind = "object"
         THEN LET acts == FileObjActions(m.obj, FALSE)
              IN  IF acts = <<>> THEN <<>> ELSE <<Built(mi, 0, acts[1])>>
         ELSE <<>>
    ELSE IF ToLower(m.key) \in {"create_files", "files"}
         THEN IF m.kind = "array" THEN ItemsActions(m.items, mi, 1) ELSE <<>>
         ELSE <<>>

\* for key, val := range v: the members are visited in the order the map
\* iteration yields them, which the language leaves open; order is a
\* permutation of the member indices
RECURSIVE RangeMembers(_, _)
RangeMembers(members, order) ==
    IF order = <<>> THEN <<>>
    ELSE MemberActions(members[Head(order)], Head(order))
         \o RangeMembers(members, Tail(order))

\* the actions of one fenced JSON block
JsonBlockActions(capture, order) ==
    LET block == TrimSpace(capture)
        v == IF Len(block) = 1 THEN JsonValue(block[1]) ELSE JsonValue("")
    IN  CASE v.kind = "array" -> ItemsActions(v.items, 0, 1)
          [] v.kind = "object" -> RangeMembers(v.members, order)
          [] OTHER -> <<>>

\* the number of keys of the object a capture decodes to
NumMembers(capture) ==
    LET block == TrimSpace(capture)
    IN  IF Len(block) = 1 THEN Len(JsonValue(block[1]).members) ELSE 0

Perms(n) ==
    {p \in [1..n -> 1..n] : \A a, b \in 1..n : p[a] = p[b] => a = b}

\* the iteration orders the maps of the JSON blocks of a text can take: one
\* permutation for each block
KeyOrders(text) ==
    LET blocks == FindAllStringSubmatch(jsonBlockRegex, text)
    IN  {o \in [1..Len(blocks) -> UNION {Perms(n) : n \in 0..2}] :
            \A b \in 1..Len(blocks) :
                o[b] \in Perms(NumMembers(blocks[b].caps[1]))}

\* an entry of the list under construction: the action, the pass that
\* appended it, the index in the text at which its match starts and, for
\* an action of a JSON block, the place of its source in the block
Entry(pass, at, member, item, a) ==
    [pass |-> pass, at |-> at, member |-> member, item |-> item, action |-> a]

RECURSIVE Tag(_, _, _)
Tag(pass, at, built) ==
    IF built = <<>> THEN <<>>
    ELSE <<Entry(pass, at, Head(built).member, Head(built).item,
                 Head(built).action)>>
         \o Tag(pass, at, Tail(built))

\* the first loop of Parse: the fenced JSON blocks
RECURSIVE JsonPass(_, _, _)
JsonPass(blocks, orders, b) ==
    IF b > Len(blocks) THEN <<>>
    ELSE Tag("json", blocks[b].at, JsonBlockActions(blocks[b].caps[1], orders[b]))
         \o JsonPass(blocks, orders, b + 1)

\* strings.ReplaceAll(s, old, new)
RECURSIVE ReplaceAll(_, _, _)
ReplaceAll(s, old, new) ==
    LET k == Index(s, old)
    IN  IF k = 0 THEN s
        ELSE SubSeq(s, 1, k - 1) \o new
             \o ReplaceAll(SubSeq(s, k + Len(old), Len(s)), old, new)

\* filepath.Ext(p): the suffix of the last element of p from its last dot
Ext(p) ==
    LET dots == {k \in 1..Len(p) :
                    p[k] = "." /\ \A m \in k..Len(p) : p[m] # "/"}
    IN  IF dots = {} THEN <<>> ELSE SubSeq(p, SetMax(dots), Len(p))

\* strings.TrimSuffix(s, suffix)
TrimSuffix(s, suffix) ==
    IF Len(suffix) <= Len(s)
       /\ SubSeq(s, Len(s) - Len(suffix) + 1, Len(s)) = suffix
    THEN SubSeq(s, 1, Len(s) - Len(suffix)) ELSE s

\* %d of a count below ten
Itoa(n) == <<(<<"1", "2", "3", "4", "5", "6", "7", "8", "9">>)[n]>>

\* the languages whose marker is a block or a line comment
CLangs == {<<"css">>, <<"js">>, <<"javascript">>, <<"typescript">>, <<"java">>,
           <<"c">>, <<"cpp">>, <<"go">>}

\* the switch on the language of a fenced block: the capture groups of the
\* marker's match in the body, <<>> when there is none
MarkerMatch(lang, body) ==
    IF lang = <<"html">> THEN FindStringSubmatch(htmlMarkerRegex, body, FALSE)
    ELSE IF lang \in CLangs
         THEN LET m == FindStringSubmatch(blockMarkerRegex, body, FALSE)
              IN  IF m # <<>> THEN m
                  ELSE FindStringSubmatch(lineMarkerRegex, body, TRUE)
         ELSE FindStringSubmatch(hashMarkerRegex, body, TRUE)

\* the file name a marker's match gives: its first capture group, empty
\* when the body holds no marker
MarkedName(markerMatch) ==
    IF markerMatch # <<>> THEN markerMatch[1] ELSE <<>>

\* the file name marked in one fenced block
Marked(caps) == MarkedName(MarkerMatch(TrimSpace(caps[1]), caps[2]))

\* the sanitised name, under which the uses are counted
Base(filename) == ReplaceAll(TrimSpace(filename), DotDot, <<>>)

\* nameCount[base], zero for a name not used yet
Cnt(nameCount, base) ==
    IF base \in DOMAIN nameCount THEN nameCount[base] ELSE 0

\* the name of the file: base itself at its first use, then name.cnt.ext
UniqueName(base, cnt) ==
    IF cnt > 0
    THEN TrimSuffix(base, Ext(base)) \o <<".">> \o Itoa(cnt) \o Ext(base)
    ELSE base

\* the body of the loop for one fenced block: nothing without a marker,
\* otherwise one CreateFile action
FencedEntries(match, marked, nameCount) ==
    IF marked = <<>> THEN <<>>
    ELSE <<Entry("fenced", match.at, 0, 0,
                 CreateFileAction(UniqueName(Base(marked),
                                             Cnt(nameCount, Base(marked))),
                                  match.caps[2]))>>

\* nameCount after the loop body ran for one fenced block
Counted(marked, nameCount) ==
    IF marked = <<>> THEN nameCount
    ELSE Put(nameCount, Base(marked), Cnt(nameCount, Base(marked)) + 1)

\* the second loop of Parse: the fenced code blocks that carry a
\* create-file marker; nameCount counts the uses of each file name
RECURSIVE FencedPass(_, _, _)
FencedPass(matches, k, nameCount) ==
    IF k > Len(matches) THEN <<>>
    ELSE FencedEntries(matches[k], Marked(matches[k].caps), nameCount)
         \o FencedPass(matches, k + 1,
                       Counted(Marked(matches[k].caps), nameCount))

\* the action a tag pass builds from the capture groups of one match
TagAction(pass, caps) ==
    CASE pass = "create_file" ->
            CreateFileAction(TrimSpace(caps[1]), TrimSpace(caps[2]))
      [] pass = "execute_command" -> ExecuteCommandAction(TrimSpace(caps[1]))
      [] pass = "create_directory" -> CreateDirectoryAction(TrimSpace(caps[1]))
      [] pass = "modify_file" ->
            ModifyFileAction(TrimSpace(caps[1]), TrimSpace(caps[2]),
                             TrimSpace(caps[3]))
      [] pass = "read_file" -> ReadFileAction(TrimSpace(caps[1]))

\* one of the five loops over the matches of a tag pattern
RECURSIVE TagPass(_, _)
TagPass(pass, matches) ==
    IF matches = <<>> THEN <<>>
    ELSE <<Entry(pass, Head(matches).at, 0, 0,
                 TagAction(pass, Head(matches).caps))>>
         \o TagPass(pass, Tail(matches))

\* a Parse that runs the tag passes before the JSON and fenced-code passes
ParseEntriesTagsFirst(text, orders) ==
    TagPass("create_file", FindAllStringSubmatch(createFileRegex, text))
    \o TagPass("execute_command", FindAllStringSubmatch(executeCommandRegex, text))
    \o TagPass("create_directory", FindAllStringSubmatch(createDirRegex, text))
    \o TagPass("modify_file", FindAllStringSubmatch(modifyFileRegex, text))
    \o TagPass("read_file", FindAllStringSubmatch(readFileRegex, text))
    \o JsonPass(FindAllStringSubmatch(jsonBlockRegex, text), orders, 1)
    \o FencedPass(FindAllStringSubmatch(fencedCodeRegex, text), 1, <<>>)

\* a Parse whose execute-command loop stands before its create-file loop
ParseEntriesCommandsFirst(text, orders) ==
    JsonPass(FindAllStringSubmatch(jsonBlockRegex, text), orders, 1)
    \o FencedPass(FindAllStringSubmatch(fencedCodeRegex, text), 1, <<>>)
    \o TagPass("execute_command", FindAllStringSubmatch(executeCommandRegex, text))
    \o TagPass("create_file", FindAllStringSubmatch(createFileRegex, text))
    \o TagPass("create_directory", FindAllStringSubmatch(createDirRegex, text))
    \o TagPass("modify_file", FindAllStringSubmatch(modifyFileRegex, text))
    \o TagPass("read_file", FindAllStringSubmatch(readFileRegex, text))

\* ActionParser.Parse, with the pass and the match position of every action
\* it appends; orders resolves the iteration order of the maps
ParseEntries(text, orders) ==
    JsonPass(FindAllStringSubmatch(jsonBlockRegex, text), orders, 1)
    \o FencedPass(FindAllStringSubmatch(fencedCodeRegex, text), 1, <<>>)
    \o TagPass("create_file", FindAllStringSubmatch(createFileRegex, text))
    \o TagPass("execute_command", FindAllStringSubmatch(executeCommandRegex, text))
    \o TagPass("create_directory", FindAllStringSubmatch(createDirRegex, text))
    \o TagPass("modify_file", FindAllStringSubmatch(modifyFileRegex, text))
    \o TagPass("read_file", FindAllStringSubmatch(readFileRegex, text))

\* the []Action that Parse returns
ActionsOf(entries) == [k \in 1..Len(entries) |-> entries[k].action]

(***************************************************************************)
(* The texts Parse is applied to: up to MaxSegments pieces of markup, one  *)
(* after the other.                                                        *)
(***************************************************************************)
SegCreateFile ==
    <<"<create_file>", "\n", "<path>", " ", "a", "</path>", " ",
      "<content>", "x", " ", "</content>", "</create_file>">>
SegCreateFileB ==
    <<"<create_file>", "<path>", "b", "</path>",
      "<content>", "y", "</content>", "</create_file>">>
\* a create_file element that is never closed
SegOpen == <<"<create_file>", "<path>", "h">>
SegCommand ==
    <<"<execute_command>", "<command>", "e", "</command>", "</execute_command>">>
SegDirectory ==
    <<"<create_directory>", "<path>", "a", "</path>", "</create_directory>">>
SegModify ==
    <<"<modify_file>", "<path>", "a", "</path>", "<search>", "x", "</search>",
      "<replace>", "y", "</replace>", "</modify_file>">>
SegRead == <<"<read_file>", "<path>", "a", "</path>", "</read_file>">>
SegJsonArray == <<Fence, "json", "\n", JArrayFiles, "\n", Fence>>
SegJsonBoth == <<Fence, JObjBoth, Fence>>
SegJsonUpper == <<Fence, "json", JObjUpper, Fence>>
SegCode ==
    <<Fence, "go", "\n", "//", " ", "@create-file:", " ", "f", ".", "t", "\n",
      "x", "\n", Fence>>
SegText == <<"h", " ">>

Segments == {SegCreateFile, SegCreateFileB, SegOpen, SegCommand, SegDirectory,
             SegModify, SegRead, SegJsonArray, SegJsonBoth, SegJsonUpper,
             SegCode, SegText}

RECURSIVE Flatten(_)
Flatten(ss) == IF ss = <<>> THEN <<>> ELSE Head(ss) \o Flatten(Tail(ss))

Texts == {Flatten(ss) : ss \in UNION {[1..n -> Segments] : n \in 0..MaxSegments}}

ParseIdle ==
    /\ response = <<>>
    /\ parses = <<>>

\* a caller holds a text to parse
ParseInit ==
    /\ response \in Texts
    /\ parses = <<>>

\* one call of Parse on the text; the iteration order of every map is
\* whatever the runtime yields in this call
CallParse ==
    /\ Len(parses) < MaxParseCalls
    /\ \E orders \in KeyOrders(response) :
          parses' = Append(parses, ParseEntries(response, orders))
    /\ UNCHANGED response
    /\ UNCHANGED <<execVars, streamVars, agentVars, replVars>>

(***************************************************************************)
(* Agent.SendMessage: the stream is consumed by the actions of the stream  *)
(* section, and the actions are run by the actions of ExecuteActions.      *)
(***************************************************************************)
ChatMessage(role, content) == [Role |-> role, Content |-> content]

\* the text of the user's message
UserText == <<"h">>

\* RunREPL is not running: no line read, no context made, no signal
ReplIdle ==
    /\ rpc = "read"
    /\ input = <<>>
    /\ inputs = 0
    /\ ctxSeq = 0
    /\ currentCancel = 0
    /\ cancelledCtxs = {}
    /\ sigChan = <<>>
    /\ signals = 0
    /\ gpc = "wait"
    /\ gSig = [idle |-> FALSE, seq |-> 0]
    /\ report = "none"
    /\ applied = {}

AgentIdle ==
    /\ apc = "idle"
    /\ conversationHistory = <<>>
    /\ pendingActions = <<>>
    /\ autoExecuteActions = FALSE
    /\ sendErr = NoErr

\* the agent between two interactions: an earlier response may have left
\* actions pending, and /auto may have switched auto-execution on
AgentInit ==
    /\ apc = "idle"
    /\ \E earlier \in {<<>>, <<ReadFileAction(PathA)>>} :
          /\ pendingActions = earlier
          /\ conversationHistory =
                IF earlier = <<>> THEN <<>>
                ELSE <<ChatMessage("user", UserText),
                       ChatMessage("assistant", SegRead)>>
    /\ autoExecuteActions \in BOOLEAN
    /\ sendErr = NoErr

\* fmt.Errorf("failed to stream chat: %w", err)
FailedToStream(err) == [kind |-> "failed to stream chat", detail |-> <<err>>]
\* fmt.Errorf("failed to execute actions: %w", err)
FailedToExecute(err) == [kind |-> "failed to execute actions", detail |-> <<err>>]

\* SendMessage up to the call of StreamGenerateWithContext: the user
\* message is appended to the history
SendMessageCall ==
    /\ apc = "idle"
    /\ conversationHistory' =
          Append(conversationHistory, ChatMessage("user", UserText))
    /\ apc' = "streaming"
    /\ UNCHANGED <<pendingActions, autoExecuteActions, sendErr>>
    /\ UNCHANGED <<execVars, streamVars, parseVars, replVars>>

\* a SendMessage that calls ExecuteActions on the actions found whatever
\* the auto-execution flag says
StoreActionsAlwaysExecuting(entries, found, which) ==
    LET run == found # <<>>
    IN  /\ conversationHistory' =
              Append(conversationHistory,
                     ChatMessage("assistant", fullResponse))
        /\ response' = fullResponse
        /\ parses' = Append(parses, entries)
        /\ pendingActions' = IF found # <<>> THEN found ELSE pendingActions
        /\ apc' = IF run THEN "executing" ELSE "returned"
        /\ sendErr' = IF run THEN sendErr ELSE ReturnNil
        /\ pc' = IF run THEN "loop" ELSE pc
        /\ actions' = IF run THEN found ELSE actions
        /\ impl' = IF run THEN which ELSE impl

\* SendMessage once Parse has returned the actions found: the assistant
\* message is in the history, the actions found become the pending ones and,
\* with auto-execution on, ExecuteActions is called on them
StoreActions(entries, found, which) ==
    LET run == found # <<>> /\ autoExecuteActions
    IN  /\ conversationHistory' =
              Append(conversationHistory,
                     ChatMessage("assistant", fullResponse))
        /\ response' = fullResponse
        /\ parses' = Append(parses, entries)
        /\ pendingActions' = IF found # <<>> THEN found ELSE pendingActions
        /\ apc' = IF run THEN "executing" ELSE "returned"
        /\ sendErr' = IF run THEN sendErr ELSE ReturnNil
        /\ pc' = IF run THEN "loop" ELSE pc
        /\ actions' = IF run THEN found ELSE actions
        /\ impl' = IF run THEN which ELSE impl

\* the extraction: the actions of the entries Parse built
ExtractActions(entries, which) ==
    StoreActions(entries, ActionsOf(entries), which)

\* a SendMessage that goes on to the extraction whatever the stream returned
SendMessageAfterStreamIgnoringError ==
    /\ apc = "streaming"
    /\ spc = "returned"
    /\ \E orders \in KeyOrders(fullResponse), which \in {"collect", "abort"} :
          ExtractActions(ParseEntries(fullResponse, orders), which)
    /\ UNCHANGED <<idx, failed, fs, ctxCancelled, result, validateLog,
                   executeLog, touched, spawned>>
    /\ UNCHANGED <<streamVars, autoExecuteActions, replVars>>

\* SendMessage from the return of StreamGenerateWithContext to the call of
\* ExecuteActions or to its own return: on an error it returns at once;
\* otherwise it appends the assistant message, parses the accumulated
\* response, stores the actions found as pending and, with auto-execution
\* on, calls ExecuteActions on them
SendMessageAfterStream ==
    /\ apc = "streaming"
    /\ spc = "returned"
    /\ IF streamErr # ReturnNil
       THEN /\ sendErr' = FailedToStream(streamErr)
            /\ apc' = "returned"
            /\ UNCHANGED <<conversationHistory, pendingActions, parseVars,
                           pc, actions, impl>>
       ELSE \E orders \in KeyOrders(fullResponse), which \in {"collect", "abort"} :
          ExtractActions(ParseEntries(fullResponse, orders), which)
    /\ UNCHANGED <<idx, failed, fs, ctxCancelled, result, validateLog,
                   executeLog, touched, spawned>>
    /\ UNCHANGED <<streamVars, autoExecuteActions, replVars>>

\* SendMessage after ExecuteActions has returned: a failure is returned
\* and leaves the actions pending, a success clears them
SendMessageAfterExecute ==
    /\ apc = "executing"
    /\ pc = "done"
    /\ IF result.ok
       THEN /\ pendingActions' = <<>>
            /\ sendErr' = ReturnNil
       ELSE /\ pendingActions' = pendingActions
            /\ sendErr' = FailedToExecute(result.msg)
    /\ apc' = "returned"
    /\ UNCHANGED <<conversationHistory, autoExecuteActions>>
    /\ UNCHANGED <<execVars, streamVars, parseVars, replVars>>

Init == ExecInit /\ StreamInit /\ ParseIdle /\ AgentIdle /\ ReplIdle

Next ==
    \/ CallExecuteActions
    \/ CancelContext
    \/ ExecuteActionsStep
    \/ ExecuteActionsReturn
    \/ AbortingExecuteActionsStep
    \/ AbortingExecuteActionsReturn

Spec == Init /\ [][Next]_vars

StreamNext ==
    \/ CancelStream
    \/ SendRequest
    \/ ReadBody
    \/ ScanLine
    \/ ScanEnd
    \/ ScanFails

StreamSpec == Init /\ [][StreamNext]_vars

ParseNext == CallParse

\* a caller holds a text to parse; nothing else is running
ParseStart == ExecInit /\ StreamInit /\ ParseInit /\ AgentIdle /\ ReplIdle

ParseSpec == ParseStart /\ [][ParseNext]_vars

\* one interaction of the agent
AgentNext ==
    \/ SendMessageCall
    \/ (apc = "streaming" /\ CancelStream)
    \/ (apc = "streaming" /\ SendRequest)
    \/ (apc = "streaming" /\ ReadBody)
    \/ (apc = "streaming" /\ ScanLine)
    \/ (apc = "streaming" /\ ScanEnd)
    \/ (apc = "streaming" /\ ScanFails)
    \/ SendMessageAfterStream
    \/ (apc = "executing" /\ CancelContext)
    \/ (apc = "executing" /\ ExecuteActionsStep)
    \/ (apc = "executing" /\ ExecuteActionsReturn)
    \/ (apc = "executing" /\ AbortingExecuteActionsStep)
    \/ (apc = "executing" /\ AbortingExecuteActionsReturn)
    \/ SendMessageAfterExecute

\* the agent between two interactions; no stream is open and no action runs
AgentStart == ExecInit /\ StreamInit /\ ParseIdle /\ AgentInit /\ ReplIdle

AgentSpec == AgentStart /\ [][AgentNext]_vars

(***************************************************************************)
(* Parse on texts made of fenced JSON blocks.                              *)
(***************************************************************************)
SegJsonPartial == <<Fence, "json", "\n", JArrayPartial, "\n", Fence>>
SegJsonFiles == <<Fence, "json", JObjFiles, Fence>>
SegJsonCreateFile == <<Fence, JObjCreateFile, Fence>>
SegJsonByName == <<Fence, "json", JObjByName, Fence>>

JsonSegments == {SegJsonArray, SegJsonPartial, SegJsonFiles, SegJsonCreateFile,
                 SegJsonByName, SegJsonBoth, SegJsonUpper, SegText}

JsonTexts ==
    {Flatten(ss) : ss \in UNION {[1..n -> JsonSegments] : n \in 1..MaxSegments}}

\* a caller holds a text of fenced JSON blocks to parse
JsonStart ==
    /\ ExecInit
    /\ StreamInit
    /\ AgentIdle
    /\ ReplIdle
    /\ response \in JsonTexts
    /\ parses = <<>>

JsonSpec == JsonStart /\ [][ParseNext]_vars

(***************************************************************************)
(* Parse on texts whose markup stands inside other markup, and on texts    *)
(* with several marked code blocks.                                        *)
(***************************************************************************)
\* a marked code block whose file name has the shape of a numbered name
SegCodeSuffixed ==
    <<Fence, "go", "\n", "//", " ", "@create-file:", " ", "f", ".", "1", ".",
      "t", "\n", "y", "\n", Fence>>
\* a create_file element whose content is an execute_command element
SegNestedCommand ==
    <<"<create_file>", "<path>", "a", "</path>", "<content>",
      "<execute_command>", "<command>", "e", "</command>",
      "</execute_command>", "</content>", "</create_file>">>
\* a create_file element whose content is a fenced JSON block
SegNestedJson ==
    <<"<create_file>", "<path>", "a", "</path>", "<content>",
      Fence, "json", JObjFiles, Fence, "</content>", "</create_file>">>

MarkupSegments == {SegCode, SegCodeSuffixed, SegNestedCommand, SegNestedJson,
                   SegCreateFileB, SegText}

MarkupTexts ==
    {Flatten(ss) : ss \in UNION {[1..n -> MarkupSegments] : n \in 0..MaxSegments}}

\* a caller holds such a text to parse; nothing else is running
MarkupStart ==
    /\ ExecInit
    /\ StreamInit
    /\ AgentIdle
    /\ ReplIdle
    /\ response \in MarkupTexts
    /\ parses = <<>>

MarkupSpec == MarkupStart /\ [][ParseNext]_vars

(***************************************************************************)
(* SendMessage from the return of the stream onwards, for a reply made of  *)
(* tag-based markup only.                                                  *)
(***************************************************************************)
\* a create_file element whose content holds the text x twice
SegCreateFileTwice ==
    <<"<create_file>", "<path>", "a", "</path>",
      "<content>", "x", " ", "x", "</content>", "</create_file>">>

TagSegments == {SegCreateFileB, SegCreateFileTwice, SegCommand, SegDirectory,
                SegModify, SegRead}

\* the replies: up to MaxSegments elements, one after the other
TagTexts ==
    {Flatten(ss) : ss \in UNION {[1..n -> TagSegments] : n \in 1..MaxSegments}}

\* StreamGenerateWithContext has returned nil after the server sent the
\* reply as one line of text, which the callback accepted
ReplyReceived ==
    /\ ExecInit
    /\ ParseIdle
    /\ ReplIdle
    /\ \E t \in TagTexts :
          /\ lines = <<t>>
          /\ delivered = <<[line |-> 1, text |-> t, accepted |-> TRUE]>>
          /\ userSeen = <<t>>
          /\ fullResponse = t
    /\ pos = 2
    /\ buffered = 1
    /\ lastChunk = [Response |-> <<>>]
    /\ spc = "returned"
    /\ streamErr = ReturnNil
    /\ apc = "streaming"
    /\ conversationHistory = <<ChatMessage("user", UserText)>>
    /\ pendingActions \in {<<>>, <<ReadFileAction(PathA)>>}
    /\ autoExecuteActions \in BOOLEAN
    /\ sendErr = NoErr

ReplyNext ==
    \/ SendMessageAfterStream
    \/ (apc = "executing" /\ CancelContext)
    \/ (apc = "executing" /\ ExecuteActionsStep)
    \/ (apc = "executing" /\ ExecuteActionsReturn)
    \/ (apc = "executing" /\ AbortingExecuteActionsStep)
    \/ (apc = "executing" /\ AbortingExecuteActionsReturn)
    \/ SendMessageAfterExecute

ReplySpec == ReplyReceived /\ [][ReplyNext]_vars

(***************************************************************************)
(* RunREPL: the loop that reads a line and handles it, and the goroutine   *)
(* that handles the interrupt signals.  The two share the variable         *)
(* currentCancel without synchronisation; every read and write of it is a  *)
(* step of its own.  The stream call of SendMessage is taken as a whole,   *)
(* by what it returns.  The variable interrupted only chooses the prompt   *)
(* that is printed and is left out.                                        *)
(***************************************************************************)
InputLines ==
    {<<"h", "\n">>, <<" ", "\n">>, <<"/execute", "\n">>, <<"/clear", "\n">>,
     <<"/auto", " ", "on", "\n">>, <<"/auto", " ", "off", "\n">>}

\* strings.HasPrefix(input, "/"): a command word is one token
HasSlashPrefix(s) == s # <<>> /\ Head(s) \in {"/execute", "/clear", "/auto"}

\* the replies of the language model
ReplReplies == {SegText, SegCreateFileB, SegCommand \o SegModify}

\* what StreamGenerateWithContext returns to SendMessage: nil after the
\* text of a reply, the error of an error chunk, the context's error when
\* the context is cancelled, or a failed request
StreamReturns(cancelled) ==
    {[text |-> t, err |-> ReturnNil] : t \in ReplReplies}
    \cup {[text |-> <<>>, err |-> StreamError(x)] :
             x \in {<<"e">>, <<"context canceled">>}}
    \cup (IF cancelled
          THEN {[text |-> <<>>, err |-> e] :
                   e \in {RequestCancelled, ReadError("context canceled")}}
          ELSE {[text |-> <<>>, err |-> RequestError("failed to send request")]})

\* err.Error() of what the stream call returned, as the pieces of the message
StreamErrorString(e) == <<e.kind, ": ">> \o e.detail

\* err.Error() of what SendMessage returned; the error of the aborting
\* ExecuteActions wraps the action's error, the collecting one's does not
SendErrorString(e, res) ==
    IF e.kind = "failed to stream chat"
    THEN <<e.kind, ": ">> \o StreamErrorString(e.detail[1])
    ELSE <<e.kind, ": ", e.detail[1]>>
         \o (IF res.cause # "" THEN <<": ", res.cause>> ELSE <<>>)

\* strings.Contains(err.Error(), "context canceled")
MentionsCanceled(str) ==
    \E k \in 1..Len(str) :
        str[k] \in {"context canceled", "command failed: context canceled"}

\* the indices of the actions the ExecuteActions call executed with success
Succeeded ==
    {executeLog[k].index :
        k \in {j \in 1..Len(executeLog) : executeLog[j].err = NilErr}}

\* the call of ExecuteActions is over: its locals are gone
ExecReset ==
    /\ pc' = "idle"
    /\ impl' = "collect"
    /\ actions' = <<>>
    /\ idx' = 1
    /\ failed' = <<>>
    /\ ctxCancelled' = FALSE
    /\ result' = NoResult
    /\ validateLog' = <<>>
    /\ executeLog' = <<>>
    /\ touched' = {}
    /\ spawned' = <<>>
    /\ fs' = fs

\* ReadString returns a line; a context is made for it and its cancel
\* function is stored in currentCancel (the deferred reset runs only when
\* RunREPL returns); the trimmed line is empty, a command or a message
ReadLine ==
    /\ rpc = "read"
    /\ inputs < MaxInputs
    /\ \E line \in InputLines :
          /\ input' = TrimSpace(line)
          /\ rpc' = IF TrimSpace(line) = <<>> THEN "read"
                    ELSE IF HasSlashPrefix(TrimSpace(line)) THEN "command"
                    ELSE "send"
    /\ inputs' = inputs + 1
    /\ ctxSeq' = ctxSeq + 1
    /\ currentCancel' = ctxSeq + 1
    /\ report' = "none"
    /\ UNCHANGED <<cancelledCtxs, sigChan, signals, gpc, gSig, applied>>
    /\ UNCHANGED <<execVars, streamVars, parseVars, agentVars>>

\* handleCommand on /clear
HandleClear ==
    /\ rpc = "command"
    /\ Fields(input)[1] = <<"/clear">>
    /\ conversationHistory' = <<>>
    /\ rpc' = "read"
    /\ report' = "ok"
    /\ UNCHANGED <<apc, pendingActions, autoExecuteActions, sendErr>>
    /\ UNCHANGED <<input, inputs, ctxSeq, currentCancel, cancelledCtxs, sigChan,
                   signals, gpc, gSig, applied>>
    /\ UNCHANGED <<execVars, streamVars, parseVars>>

\* handleCommand on /auto with an argument
HandleAuto ==
    /\ rpc = "command"
    /\ Fields(input)[1] = <<"/auto">>
    /\ autoExecuteActions' = (Fields(input)[2] = <<"on">>)
    /\ rpc' = "read"
    /\ report' = "ok"
    /\ UNCHANGED <<apc, conversationHistory, pendingActions, sendErr>>
    /\ UNCHANGED <<input, inputs, ctxSeq, currentCancel, cancelledCtxs, sigChan,
                   signals, gpc, gSig, applied>>
    /\ UNCHANGED <<execVars, streamVars, parseVars>>

\* handleCommand on /execute up to the call of ExecuteActions, which gets
\* context.Background() and the pending actions
HandleExecute ==
    /\ rpc = "command"
    /\ Fields(input)[1] = <<"/execute">>
    /\ IF pendingActions = <<>>
       THEN /\ rpc' = "read"
            /\ report' = "ok"
            /\ UNCHANGED <<pc, impl, actions>>
       ELSE /\ rpc' = "execute"
            /\ report' = report
            /\ pc' = "loop"
            /\ actions' = pendingActions
            /\ \E which \in {"collect", "abort"} : impl' = which
    /\ UNCHANGED <<idx, failed, fs, ctxCancelled, result, validateLog,
                   executeLog, touched, spawned>>
    /\ UNCHANGED <<input, inputs, ctxSeq, currentCancel, cancelledCtxs, sigChan,
                   signals, gpc, gSig, applied>>
    /\ UNCHANGED <<streamVars, parseVars, agentVars>>

\* handleCommand on /execute after ExecuteActions has returned: a failure
\* is returned and printed, a success clears the pending actions
HandleExecuteReturn ==
    /\ rpc = "execute"
    /\ pc = "done"
    /\ IF result.ok
       THEN /\ pendingActions' = <<>>
            /\ applied' = {}
            /\ report' = "ok"
       ELSE /\ pendingActions' = pendingActions
            /\ applied' = applied \cup Succeeded
            /\ report' = "error"
    /\ rpc' = "read"
    /\ ExecReset
    /\ UNCHANGED <<apc, conversationHistory, autoExecuteActions, sendErr>>
    /\ UNCHANGED <<input, inputs, ctxSeq, currentCancel, cancelledCtxs, sigChan,
                   signals, gpc, gSig>>
    /\ UNCHANGED <<streamVars, parseVars>>

\* the stream call of SendMessage, from its call to its return
StreamChat ==
    /\ rpc = "send"
    /\ apc = "streaming"
    /\ spc = "start"
    /\ \E r \in StreamReturns(ctxCancelled) :
          /\ fullResponse' = r.text
          /\ streamErr' = r.err
    /\ spc' = "returned"
    /\ UNCHANGED <<lines, pos, buffered, delivered, userSeen, lastChunk>>
    /\ UNCHANGED <<execVars, parseVars, agentVars, replVars>>

\* the loop after SendMessage has returned: an error that is
\* context.Canceled or mentions it is reported as an interruption, any
\* other error as an error
ReplAfterSend ==
    /\ rpc = "send"
    /\ apc = "returned"
    /\ report' = IF sendErr = ReturnNil THEN "ok"
                 ELSE IF MentionsCanceled(SendErrorString(sendErr, result))
                      THEN "interrupted"
                      ELSE "error"
    /\ applied' = IF sendErr.kind = "failed to execute actions" THEN Succeeded
                  ELSE IF sendErr = ReturnNil /\ ActionsOf(parses[Len(parses)]) # <<>>
                       THEN {}
                       ELSE applied
    /\ rpc' = "read"
    /\ apc' = "idle"
    /\ sendErr' = NoErr
    /\ ExecReset
    /\ spc' = "start"
    /\ streamErr' = NoErr
    /\ fullResponse' = <<>>
    /\ response' = <<>>
    /\ parses' = <<>>
    /\ UNCHANGED <<lines, pos, buffered, delivered, userSeen, lastChunk>>
    /\ UNCHANGED <<conversationHistory, pendingActions, autoExecuteActions>>
    /\ UNCHANGED <<input, inputs, ctxSeq, currentCancel, cancelledCtxs, sigChan,
                   signals, gpc, gSig>>

\* an interrupt signal is delivered: signal.Notify sends it to sigChan
\* without blocking and drops it when the buffer of one is full
Interrupt ==
    /\ signals < MaxSignals
    /\ signals' = signals + 1
    /\ sigChan' = IF Len(sigChan) < 1
                  THEN Append(sigChan, [idle |-> rpc = "read", seq |-> ctxSeq])
                  ELSE sigChan
    /\ UNCHANGED <<rpc, input, inputs, ctxSeq, currentCancel, cancelledCtxs,
                   gpc, gSig, report, applied>>
    /\ UNCHANGED <<execVars, streamVars, parseVars, agentVars>>

\* the goroutine receives a signal from sigChan
SignalReceive ==
    /\ gpc = "wait"
    /\ sigChan # <<>>
    /\ gSig' = Head(sigChan)
    /\ sigChan' = Tail(sigChan)
    /\ gpc' = "check"
    /\ UNCHANGED <<rpc, input, inputs, ctxSeq, currentCancel, cancelledCtxs,
                   signals, report, applied>>
    /\ UNCHANGED <<execVars, streamVars, parseVars, agentVars>>

\* the goroutine reads currentCancel and compares it with nil
SignalCheck ==
    /\ gpc = "check"
    /\ gpc' = IF currentCancel # 0 THEN "call" ELSE "wait"
    /\ UNCHANGED <<rpc, input, inputs, ctxSeq, currentCancel, cancelledCtxs,
                   sigChan, signals, gSig, report, applied>>
    /\ UNCHANGED <<execVars, streamVars, parseVars, agentVars>>

\* the goroutine reads currentCancel again and calls it: the context it
\* belongs to is cancelled, which the running SendMessage sees when it is
\* the context of this iteration
SignalCancel ==
    /\ gpc = "call"
    /\ cancelledCtxs' = cancelledCtxs \cup {currentCancel}
    /\ ctxCancelled' = (ctxCancelled \/ (rpc = "send" /\ currentCancel = ctxSeq))
    /\ gpc' = "wait"
    /\ UNCHANGED <<pc, impl, actions, idx, failed, fs, result, validateLog,
                   executeLog, touched, spawned>>
    /\ UNCHANGED <<rpc, input, inputs, ctxSeq, currentCancel, sigChan, signals,
                   gSig, report, applied>>
    /\ UNCHANGED <<streamVars, parseVars, agentVars>>

\* ExecuteActions is running, called by SendMessage or by /execute; an
\* interrupt takes effect between two iterations of its loop
RunningActions ==
    /\ rpc = "execute" \/ (rpc = "send" /\ apc = "executing")
    /\ ctxCancelled' = ctxCancelled

ReplNext ==
    \/ ReadLine
    \/ HandleClear
    \/ HandleAuto
    \/ HandleExecute
    \/ HandleExecuteReturn
    \/ (rpc = "send" /\ SendMessageCall)
    \/ StreamChat
    \/ (rpc = "send" /\ SendMessageAfterStream)
    \/ (rpc = "send" /\ SendMessageAfterExecute)
    \/ (RunningActions /\ ExecuteActionsStep)
    \/ (RunningActions /\ ExecuteActionsReturn)
    \/ (RunningActions /\ AbortingExecuteActionsStep)
    \/ (RunningActions /\ AbortingExecuteActionsReturn)
    \/ ReplAfterSend
    \/ Interrupt
    \/ SignalReceive
    \/ SignalCheck
    \/ SignalCancel

ReplSpec == Init /\ [][ReplNext]_vars

(***************************************************************************)
(* Properties of ExecuteActions and Validate.                              *)
(***************************************************************************)
ValidatedIndices == [k \in 1..Len(validateLog) |-> validateLog[k].index]
ExecutedIndices == [k \in 1..Len(executeLog) |-> executeLog[k].index]
ValidIndices ==
    LET ok == SelectSeq(validateLog, LAMBDA e : e.err = NilErr)
    IN  [k \in 1..Len(ok) |-> ok[k].index]

\* the indices whose Validate or Execute returned an error
FailedIndices ==
    {validateLog[k].index : k \in {j \in 1..Len(validateLog) : validateLog[j].err # NilErr}}
    \cup {executeLog[k].index : k \in {j \in 1..Len(executeLog) : executeLog[j].err # NilErr}}

\* the indices that were validated and executed, both without error
CompletedIndices ==
    {executeLog[k].index : k \in {j \in 1..Len(executeLog) : executeLog[j].err = NilErr}}

\* C1: when ExecuteActions has returned, every action of the list was
\* validated, in list order, and every action that passed validation was
\* executed, in list order: a failure at index i does not keep the actions
\* after i from being attempted
C1_EveryActionAttempted ==
    pc = "done" =>
        /\ ValidatedIndices = [i \in 1..Len(actions) |-> i]
        /\ ExecutedIndices = ValidIndices

\* C2: the collecting ExecuteActions returns nil exactly when every action
\* passed validation and executed without error, and otherwise returns a
\* failure whose count is the number of actions that failed validation or
\* execution
C2_SuccessIffAllSucceeded ==
    (pc = "done" /\ impl = "collect") =>
        /\ result.returned
        /\ result.ok <=> CompletedIndices = 1..Len(actions)
        /\ ~result.ok => result.count = Cardinality(FailedIndices)

\* C2 witness: a call has returned a failure that counts a validation failure
\* and an execution failure, next to an action that succeeded
C2_Witness ==
    /\ pc = "done"
    /\ impl = "collect"
    /\ result.count = 2
    /\ \E k \in 1..Len(validateLog) : validateLog[k].err # NilErr
    /\ \E k \in 1..Len(executeLog) : executeLog[k].err # NilErr
    /\ CompletedIndices # {}

\* C3: when actions failed, the error the collecting ExecuteActions returns
\* carries the collected per-action errors, so that the caller can read from
\* it which indices failed and why
C3_ResultCarriesErrors ==
    (pc = "done" /\ impl = "collect" /\ ~result.ok) => result.errors = failed

\* C4: Validate returns a violation for every path-bearing action whose path
\* contains ".."
C4_DotDotRejected ==
    \A k \in 1..Len(validateLog) :
        LET a == actions[validateLog[k].index]
        IN  (a.type \in PathBearing /\ Contains(a.Path, DotDot))
                => validateLog[k].err # NilErr

\* C5: every path that the Execute calls of ExecuteActions read, created or
\* wrote lies strictly beneath the working directory
C5_TouchedBeneathWorkDir ==
    \A p \in touched : Beneath(WorkDir, p)

\* C6: an iteration whose Validate returns a violation calls no Execute: the
\* filesystem is unchanged, no subprocess is started, and the validation
\* failure is recorded for that index (appended to the collected failures, or
\* returned by the copy that stops at the first failure)
C6_InvalidNeverExecuted ==
    [][ (validateLog' # validateLog
            /\ validateLog'[Len(validateLog')].err # NilErr)
        => LET e == validateLog'[Len(validateLog')]
           IN  /\ fs' = fs
               /\ touched' = touched
               /\ spawned' = spawned
               /\ executeLog' = executeLog
               /\ impl = "collect" =>
                     failed' = Append(failed,
                                  ActionError("validation failed", e.index, e.err))
               /\ impl = "abort" =>
                     result' = FailedAt("validation failed", e.index, e.err) ]_vars

\* C6 witness: a call has returned after an action that failed validation
\* and an action that changed the filesystem
C6_Witness ==
    /\ pc = "done"
    /\ \E k \in 1..Len(validateLog) : validateLog[k].err # NilErr
    /\ Len(executeLog) < Len(validateLog)
    /\ fs # InitFS

\* C7: Validate rejects a path-bearing action with an empty path, an
\* ExecuteCommand with an empty command and a ModifyFile with an empty search
\* text, and accepts an action whose path, command and search text are
\* non-empty and whose path has no ".."
C7_ValidateRules ==
    \A k \in 1..Len(validateLog) :
        LET a == actions[validateLog[k].index]
            err == validateLog[k].err
        IN  /\ (a.type \in PathBearing /\ a.Path = <<>>) => err # NilErr
            /\ (a.type = "ExecuteCommand" /\ a.Command = <<>>) => err # NilErr
            /\ (a.type = "ModifyFile" /\ a.Search = <<>>) => err # NilErr
            /\ ( /\ a.type \in PathBearing => a.Path # <<>>
                 /\ a.type = "ExecuteCommand" => a.Command # <<>>
                 /\ a.type = "ModifyFile" => a.Search # <<>>
                 /\ ~Contains(a.Path, DotDot) ) => err = NilErr

\* C7 witness: one call validated a ModifyFile with an empty search text, an
\* ExecuteCommand with an empty command and an action that was accepted
C7_Witness ==
    /\ \E k \in 1..Len(validateLog) :
          LET a == actions[validateLog[k].index]
          IN  a.type = "ModifyFile" /\ a.Path # <<>> /\ a.Search = <<>>
    /\ \E k \in 1..Len(validateLog) :
          LET a == actions[validateLog[k].index]
          IN  a.type = "ExecuteCommand" /\ a.Command = <<>>
    /\ \E k \in 1..Len(validateLog) : validateLog[k].err = NilErr

\* the subprocess of an action was killed because the context was cancelled
\* while it ran
KilledIndices ==
    {executeLog[k].index :
        k \in {j \in 1..Len(executeLog) :
                  executeLog[j].err = "command failed: signal: killed"}}

\* C16: when the context is cancelled while the subprocess of an
\* ExecuteCommand runs, the collecting ExecuteActions records that action as
\* failed and starts no action after it: from then on no file is written and
\* no subprocess is spawned
C16_CancelStopsRemaining ==
    [][ (impl = "collect" /\ KilledIndices # {}) =>
            /\ \A i \in KilledIndices : \E k \in 1..Len(failed) : failed[k].index = i
            /\ fs' = fs
            /\ touched' = touched
            /\ spawned' = spawned ]_vars

(***************************************************************************)
(* Properties of the stream consumption.                                   *)
(***************************************************************************)
\* what the line is, read off the JSON it holds
IsErrorChunk(raw) ==
    IsJson(TrimSpace(raw)) /\ JsonFields(TrimSpace(raw)[1]).error # <<>>

IsDoneChunk(raw) ==
    /\ IsJson(TrimSpace(raw))
    /\ JsonFields(TrimSpace(raw)[1]).done
    /\ JsonFields(TrimSpace(raw)[1]).error = <<>>

TextOf(raw) ==
    LET f == JsonFields(TrimSpace(raw)[1])
    IN  IF f.response # <<>> THEN f.response ELSE f.delta

\* once StreamGenerateWithContext has returned, no line is read, no callback
\* runs and the accumulator stays as it is
Returned == spc = "returned"
FrozenAfterReturn == UNCHANGED <<pos, delivered, userSeen, fullResponse>>

\* C8: the iteration that reads a chunk with a non-empty error field calls no
\* callback, also when the chunk carries text, appends nothing to the
\* accumulator and returns a stream error; after the return no later chunk
\* is read or delivered
C8_ErrorChunkAborts ==
    [][ /\ (spc = "scan" /\ pos' = pos + 1 /\ IsErrorChunk(lines[pos])) =>
              /\ delivered' = delivered
              /\ userSeen' = userSeen
              /\ fullResponse' = fullResponse
              /\ spc' = "returned"
              /\ streamErr' = StreamError(JsonFields(TrimSpace(lines[pos])[1]).error)
        /\ Returned => FrozenAfterReturn ]_vars

\* C8 witness: after a delivered fragment, a chunk with text and an error was
\* read, the call returned a stream error, and the body had more lines
C8_Witness ==
    /\ spc = "returned"
    /\ streamErr.kind = "stream error"
    /\ pos > 1
    /\ pos <= Len(lines)
    /\ lines[pos - 1] = <<JResponseError>>
    /\ delivered # <<>>

\* C9: the iteration that reads a chunk whose completion flag is set (and
\* whose error field is empty) delivers the chunk's own text when it is
\* non-empty, then returns, with nil unless the callback returned an error;
\* after the return no later chunk is read, delivered or accumulated
C9_DoneChunkStops ==
    [][ /\ (spc = "scan" /\ pos' = pos + 1 /\ IsDoneChunk(lines[pos])) =>
              LET part == TextOf(lines[pos])
                  n == Len(delivered')
              IN  /\ spc' = "returned"
                  /\ part = <<>> => (delivered' = delivered /\ streamErr' = ReturnNil)
                  /\ part # <<>> =>
                        /\ n = Len(delivered) + 1
                        /\ SubSeq(delivered', 1, n - 1) = delivered
                        /\ delivered'[n].line = pos
                        /\ delivered'[n].text = part
                        /\ delivered'[n].accepted => streamErr' = ReturnNil
        /\ Returned => FrozenAfterReturn ]_vars

\* C9 witness: a done chunk with text was read and delivered, the call
\* returned nil, and the lines after it were left unread
C9_Witness ==
    /\ spc = "returned"
    /\ streamErr = ReturnNil
    /\ pos > 1
    /\ pos <= Len(lines)
    /\ lines[pos - 1] = <<JResponseDone>>
    /\ delivered # <<>>
    /\ delivered[Len(delivered)].line = pos - 1

\* C10: the callback calls follow the arrival order of the chunks: the line a
\* call delivers lies after the line of every earlier call, so that no chunk
\* is delivered twice, each call hands on text of its own line, and the
\* caller's callback runs once per call
C10_DeliveredInArrivalOrder ==
    /\ \A j, k \in 1..Len(delivered) :
          j < k => delivered[j].line < delivered[k].line
    /\ \A k \in 1..Len(delivered) :
          /\ delivered[k].line < pos
          /\ delivered[k].text \in {TrimSpace(lines[delivered[k].line]),
                                    TextOf(lines[delivered[k].line])}
    /\ Len(userSeen) = Len(delivered)

\* C10 witness: two fragments were delivered, with an undelivered line
\* between them
C10_Witness ==
    /\ Len(delivered) = 2
    /\ delivered[1].line = 1
    /\ delivered[2].line = 3

\* the concatenation of the texts of the callback calls, in call order
RECURSIVE ConcatTexts(_)
ConcatTexts(calls) ==
    IF calls = <<>> THEN <<>> ELSE Head(calls).text \o ConcatTexts(Tail(calls))

\* C11: for every fragment the client hands to its callback, the caller's
\* callback receives exactly that fragment and the accumulator grows by
\* exactly that fragment, so the accumulated document is the concatenation,
\* in arrival order, of the fragments, also when a fragment is itself valid
\* JSON
C11_FragmentsAccumulated ==
    /\ Len(userSeen) = Len(delivered)
    /\ \A k \in 1..Len(delivered) : userSeen[k] = delivered[k].text
    /\ fullResponse = ConcatTexts(delivered)

\* C12: a line that was read and does not parse as a JSON record is handed
\* to the callback whole and unmodified, and reaches the caller's callback
\* unmodified; no non-empty line is dropped
C12_RawChunkDeliveredWhole ==
    \A i \in 1..(pos - 1) :
        (lines[i] # <<>> /\ ~IsJson(lines[i])) =>
            \E k \in 1..Len(delivered) :
                /\ delivered[k].line = i
                /\ delivered[k].text = lines[i]
                /\ userSeen[k] = lines[i]

IsCancellation(e) == e.detail = <<"context canceled">>

\* C14: once the context is cancelled no callback is invoked any more, and
\* the consumption, when it returns after the cancellation, returns a
\* cancellation error
C14_CancelStopsDelivery ==
    [][ ctxCancelled =>
            /\ delivered' = delivered
            /\ (spc # "returned" /\ spc' = "returned") => IsCancellation(streamErr') ]_vars

(***************************************************************************)
(* Properties of Parse.                                                    *)
(***************************************************************************)
TagPasses == {"create_file", "execute_command", "create_directory",
              "modify_file", "read_file"}

\* text that holds no markup
InnerText(s) ==
    \A k \in 1..Len(s) : s[k] \in {" ", "\n", "a", "b", "h", "x", "y", ".", "/"}

\* a well-formed <create_file> element starts at index i of the text: its
\* tags in order, white space between the fields, and fields without markup
WellFormedCreateFileAt(t, i) ==
    /\ i <= Len(t)
    /\ t[i] = "<create_file>"
    /\ Match(createFileRegex, t, i).ok
    /\ \A n \in 1..2 : InnerText(Match(createFileRegex, t, i).caps[n])

\* C17: two calls of Parse on the same text return equal action lists
C17_ParseDeterministic ==
    Len(parses) >= 2 => ActionsOf(parses[1]) = ActionsOf(parses[2])

\* C18: for every well-formed <create_file> element of the text, whatever
\* precedes it, the create-file pass of Parse yields a CreateFile action
\* whose path and content are the trimmed texts of the element's fields
C18_CreateFileOccurrenceExtracted ==
    \A c \in 1..Len(parses) : \A i \in 1..Len(response) :
        WellFormedCreateFileAt(response, i) =>
            LET caps == Match(createFileRegex, response, i).caps
            IN  \E k \in 1..Len(parses[c]) :
                    /\ parses[c][k].pass = "create_file"
                    /\ parses[c][k].action =
                          CreateFileAction(TrimSpace(caps[1]), TrimSpace(caps[2]))

\* the rank of the passes the statement of the extraction order names
PassRank(pass) ==
    CASE pass = "json" -> 1
      [] pass = "create_file" -> 2
      [] pass = "execute_command" -> 3
      [] pass = "create_directory" -> 4
      [] pass = "modify_file" -> 5
      [] pass = "read_file" -> 6
      [] OTHER -> 0

\* a stands before b in the document
DocumentOrder(a, b) ==
    \/ a.at < b.at
    \/ a.at = b.at /\ a.member < b.member
    \/ a.at = b.at /\ a.member = b.member /\ a.item <= b.item

\* C19: in the list Parse returns, the actions of the JSON blocks come
\* first, then the create-file, execute-command, create-directory,
\* modify-file and read-file matches, and the actions of each of these
\* passes stand in document order
C19_PassOrder ==
    \A c \in 1..Len(parses) : \A j, k \in 1..Len(parses[c]) :
        LET a == parses[c][j]
            b == parses[c][k]
        IN  (j < k /\ PassRank(a.pass) > 0 /\ PassRank(b.pass) > 0) =>
                /\ PassRank(a.pass) <= PassRank(b.pass)
                /\ a.pass = b.pass => DocumentOrder(a, b)

LoopRank(pass) == IF pass = "json" THEN 1
                  ELSE IF pass = "fenced" THEN 2 ELSE PassRank(pass) + 1

BlockValue(capture) ==
    IF Len(TrimSpace(capture)) = 1 THEN JsonValue(TrimSpace(capture)[1])
    ELSE JsonValue("")

\* the string a file object gives for its path: the one under the key
\* "path", else the one under the key "name"; and likewise for its content
ResolvedPath(obj) ==
    IF obj.path.set THEN obj.path.v
    ELSE IF obj.name.set THEN obj.name.v ELSE <<>>

ResolvedContent(obj) ==
    IF obj.content.set THEN obj.content.v
    ELSE IF obj.body.set THEN obj.body.v ELSE <<>>

\* the arrays of file objects of a decoded block: the block itself, or what
\* its keys "create_files" and "files" hold; member is 0 for the block itself
FileArrays(v) ==
    IF v.kind = "array" THEN {[member |-> 0, items |-> v.items]}
    ELSE {[member |-> mi, items |-> v.members[mi].items] :
             mi \in {m \in 1..Len(v.members) :
                        /\ v.members[m].key \in {"create_files", "files"}
                        /\ v.members[m].kind = "array"}}

\* the places of a returned list that hold the action of one object
EntriesOf(p, at, mi, n) ==
    {k \in 1..Len(p) : /\ p[k].pass = "json"
                        /\ p[k].at = at
                        /\ p[k].member = mi
                        /\ p[k].item = n}

\* the matches of the pattern of the fenced JSON blocks in the text
JsonBlocks ==
    {FindAllStringSubmatch(jsonBlockRegex, response)[b] :
        b \in 1..Len(FindAllStringSubmatch(jsonBlockRegex, response))}

\* C22: for a fenced block that is a JSON array of objects, or a JSON
\* object whose key "create_files" or "files" holds such an array, Parse
\* yields one CreateFile action for each object whose path and content both
\* resolve to non-empty strings, with that path and content, and no action
\* for any other object of the array
C22_OneCreateFilePerFileObject ==
    \A c \in 1..Len(parses) : \A b \in JsonBlocks :
        \A arr \in FileArrays(BlockValue(b.caps[1])) :
            \A n \in 1..Len(arr.items) :
                LET obj == arr.items[n]
                    hits == EntriesOf(parses[c], b.at, arr.member, n)
                IN  IF ResolvedPath(obj) # <<>> /\ ResolvedContent(obj) # <<>>
                    THEN /\ Cardinality(hits) = 1
                         /\ \A k \in hits :
                               /\ parses[c][k].action.type = "CreateFile"
                               /\ parses[c][k].action.Content = ResolvedContent(obj)
                               /\ TrimSpace(ResolvedPath(obj)) = ResolvedPath(obj)
                                     => parses[c][k].action.Path = ResolvedPath(obj)
                    ELSE hits = {}

\* C22 witness: Parse ran on a text with a block {"files":[...]} whose one
\* object names its file under "name", and with an array of two objects
\* that lack a path or a content; it returned the one CreateFile action
C22_Witness ==
    /\ parses # <<>>
    /\ Contains(response, <<JObjFiles>>)
    /\ Contains(response, <<JArrayPartial>>)
    /\ ActionsOf(parses[1]) = <<CreateFileAction(<<"b">>, <<"y">>)>>

\* C23: a fenced JSON object whose key "create_file" holds a file object
\* is probed like an element of an array, the path under "path" else
\* "name" and the content under "content" else "body": when both resolve
\* to non-empty strings Parse yields a CreateFile action with them
C23_CreateFileKeyProbedLikeElement ==
    \A c \in 1..Len(parses) : \A b \in JsonBlocks :
        LET v == BlockValue(b.caps[1])
        IN  \A mi \in 1..Len(v.members) :
                LET m == v.members[mi]
                IN  ( /\ m.key = "create_file"
                      /\ m.kind = "object"
                      /\ ResolvedPath(m.obj) # <<>>
                      /\ ResolvedContent(m.obj) # <<>> ) =>
                        \E k \in EntriesOf(parses[c], b.at, mi, 0) :
                            /\ parses[c][k].action.type = "CreateFile"
                            /\ parses[c][k].action.Content = ResolvedContent(m.obj)
                            /\ TrimSpace(parses[c][k].action.Path)
                                 = TrimSpace(ResolvedPath(m.obj))

\* C24: every action Parse returns comes from the tag-based pass or from
\* the pass over the fenced JSON blocks; a fenced block whose body is not
\* JSON yields no action
C24_TagAndJsonPassesOnly ==
    \A c \in 1..Len(parses) : \A k \in 1..Len(parses[c]) :
        parses[c][k].pass \in TagPasses \cup {"json"}

(***************************************************************************)
(* Properties of SendMessage.                                              *)
(***************************************************************************)
\* C15: when the stream consumption of SendMessage ends with an error,
\* SendMessage returns an error without extracting: from the call of the
\* stream to the return no Parse runs, no action is executed, the pending
\* actions stay as they are and no assistant message is appended
C15_StreamErrorSkipsExtraction ==
    [][ (apc = "streaming" /\ ~(spc = "returned" /\ streamErr = ReturnNil)) =>
            /\ UNCHANGED <<pendingActions, conversationHistory, parses>>
            /\ UNCHANGED <<pc, actions, fs, validateLog, executeLog, touched,
                           spawned>>
            /\ spc = "returned" =>
                  (apc' = "returned" /\ sendErr' = FailedToStream(streamErr)) ]_vars

\* C15 witness: with auto-execution on and actions pending, a stream that
\* had delivered a create_file element ended with a stream error, and
\* SendMessage has returned
C15_Witness ==
    /\ apc = "returned"
    /\ streamErr.kind = "stream error"
    /\ autoExecuteActions
    /\ pendingActions # <<>>
    /\ Contains(fullResponse, LineCreateFile)
    /\ sendErr.kind = "failed to stream chat"

(***************************************************************************)
(* Properties of the extraction followed by the execution.                 *)
(***************************************************************************)
\* the entries of the list SendMessage handed to ExecuteActions
Extracted == parses[Len(parses)]

\* the entry of the k-th action ExecuteActions took up
Attempted(k) == Extracted[validateLog[k].index]

\* C21: of a reply made of tag-based markup only, the actions are extracted
\* and executed in document order: of two elements of any variants, the
\* one that stands earlier in the text is taken up first
C21_ExecutedInDocumentOrder ==
    (apc = "executing" /\ parses # <<>>) =>
        /\ actions = ActionsOf(Extracted)
        /\ \A k, l \in 1..Len(validateLog) :
              k < l => Attempted(k).at < Attempted(l).at

\* C21 as amended: of a reply made of tag-based markup only, the actions
\* are extracted and executed variant by variant, in the order create_file,
\* execute_command, create_directory, modify_file, read_file, and the
\* elements of one variant in document order
C21_ExecutedInPassThenDocumentOrder ==
    (apc = "executing" /\ parses # <<>>) =>
        /\ actions = ActionsOf(Extracted)
        /\ \A k \in 1..Len(validateLog) : validateLog[k].index = k
        /\ \A k, l \in 1..Len(validateLog) :
              k < l =>
                 \/ PassRank(Attempted(k).pass) < PassRank(Attempted(l).pass)
                 \/ /\ Attempted(k).pass = Attempted(l).pass
                    /\ Attempted(k).at < Attempted(l).at

\* C21 witness: an execute_command element stood before a create_file
\* element in the reply, and the CreateFile action was taken up first
C21_Witness ==
    /\ apc = "executing"
    /\ Len(validateLog) >= 2
    /\ Attempted(1).pass = "create_file"
    /\ Attempted(2).pass = "execute_command"
    /\ Attempted(2).at < Attempted(1).at

(***************************************************************************)
(* Properties of the Execute methods.                                      *)
(***************************************************************************)
\* this step is an iteration of ExecuteActions that calls Execute on an
\* action of the given type
Executes(type) ==
    /\ pc = "loop"
    /\ idx <= Len(actions)
    /\ idx' = idx + 1
    /\ actions[idx].type = type
    /\ Len(executeLog') = Len(executeLog) + 1

\* the path the action of this iteration addresses, and what its Execute
\* returned
Target == Join(WorkDir, actions[idx].Path)
StepErr == executeLog'[Len(executeLog')].err

IsFile(f, p) == p \in DOMAIN f /\ ~f[p].dir
IsDir(f, p) == p \in DOMAIN f /\ f[p].dir

\* new is old with its first occurrence of search replaced by repl
FirstOccurrenceReplaced(old, search, repl, new) ==
    \E k \in 1..(Len(old) - Len(search) + 1) :
        /\ SubSeq(old, k, k + Len(search) - 1) = search
        /\ \A j \in 1..(k - 1) : SubSeq(old, j, j + Len(search) - 1) # search
        /\ new = SubSeq(old, 1, k - 1) \o repl
                  \o SubSeq(old, k + Len(search), Len(old))

\* every path but p holds after the step what it held before
OthersKept(p) ==
    /\ DOMAIN fs' \ {p} = DOMAIN fs \ {p}
    /\ \A q \in DOMAIN fs \ {p} : fs'[q] = fs[q]

\* C25: when ModifyFile executes on a file that contains its search text,
\* the file afterwards is its previous content with the first occurrence
\* of the search text replaced and every later occurrence untouched
C25_FirstOccurrenceOnly ==
    [][ ( /\ Executes("ModifyFile")
          /\ IsFile(fs, Target)
          /\ Contains(fs[Target].data, actions[idx].Search) ) =>
            /\ IsFile(fs', Target)
            /\ FirstOccurrenceReplaced(fs[Target].data, actions[idx].Search,
                                       actions[idx].Replace, fs'[Target].data)
            /\ OthersKept(Target) ]_vars

\* C25 witness: a CreateFile wrote the text x twice, the ModifyFile after
\* it in the list replaced the first x by y and left the second
C25_Witness ==
    /\ Len(executeLog) = 2
    /\ actions[1] = CreateFileAction(PathA, <<"x", "x">>)
    /\ actions[2] = ModifyFileAction(PathA, <<"x">>, <<"y">>)
    /\ executeLog[2] = [index |-> 2, err |-> NilErr]
    /\ fs[Join(WorkDir, PathA)].data = <<"y", "x">>

\* C26: when ModifyFile executes on an existing file that does not contain
\* its search text, it reports a failure and the filesystem is as before
C26_AbsentSearchLeavesFile ==
    [][ ( /\ Executes("ModifyFile")
          /\ IsFile(fs, Target)
          /\ ~Contains(fs[Target].data, actions[idx].Search) ) =>
            /\ StepErr # NilErr
            /\ fs' = fs ]_vars

\* C26 witness: a second ModifyFile on the file s, whose only x the first
\* had replaced, reported that the search string was not found
C26_Witness ==
    /\ Len(executeLog) >= 2
    /\ actions[executeLog[2].index] = ModifyFileAction(PathUp, <<"x">>, <<"y">>)
    /\ executeLog[1].err = NilErr
    /\ executeLog[2].err = "search string not found in file"
    /\ fs[Join(WorkDir, PathUp)].data = <<"y">>

\* C27: ModifyFile fails with the not-found error only when the file holds
\* no occurrence of the search text; when the file holds one, the action
\* succeeds, for every replacement text
C27_NotFoundOnlyWhenAbsent ==
    [][ (Executes("ModifyFile") /\ IsFile(fs, Target)) =>
            /\ StepErr = "search string not found in file"
                  => ~Contains(fs[Target].data, actions[idx].Search)
            /\ Contains(fs[Target].data, actions[idx].Search)
                  => StepErr = NilErr ]_vars

\* C28: after a CreateFile executed with success, its path under the
\* working directory holds a file with exactly the action's content,
\* whatever it held before, and every parent directory exists
C28_FileWritten ==
    [][ (Executes("CreateFile") /\ StepErr = NilErr) =>
            /\ Beneath(WorkDir, Target)
            /\ IsFile(fs', Target)
            /\ fs'[Target].data = actions[idx].Content
            /\ \A q \in Prefixes(Dir(Target)) : IsDir(fs', q)
            /\ \A q \in DOMAIN fs \ {Target} : fs'[q] = fs[q] ]_vars

\* C28 witness: a file written by a CreateFile and changed by a ModifyFile
\* was overwritten by a second CreateFile
C28_Witness ==
    /\ Len(executeLog) = 3
    /\ \A k \in 1..3 : executeLog[k].err = NilErr
    /\ actions[1] = CreateFileAction(PathA, <<"x", "x">>)
    /\ actions[2] = ModifyFileAction(PathA, <<"x">>, <<"y">>)
    /\ actions[3] = CreateFileAction(PathA, <<"x", "x">>)
    /\ fs[Join(WorkDir, PathA)].data = <<"x", "x">>

\* C29: a CreateDirectory that succeeds leaves the directory and all its
\* parents in place, and one that executes when the directory exists
\* succeeds and leaves the filesystem as it was
C29_CreateDirectoryIdempotent ==
    [][ Executes("CreateDirectory") =>
            /\ StepErr = NilErr =>
                  /\ \A q \in Prefixes(Target) : IsDir(fs', q)
                  /\ \A q \in DOMAIN fs : fs'[q] = fs[q]
            /\ IsDir(fs, Target) => (StepErr = NilErr /\ fs' = fs) ]_vars

\* C29 witness: the same CreateDirectory executed twice with success; the
\* first call made the directory and its parent
C29_Witness ==
    /\ Len(executeLog) >= 2
    /\ actions[1] = CreateDirectoryAction(PathInA)
    /\ actions[2] = CreateDirectoryAction(PathInA)
    /\ executeLog[1].err = NilErr
    /\ executeLog[2].err = NilErr
    /\ IsDir(fs, Join(WorkDir, PathA))
    /\ IsDir(fs, Join(WorkDir, PathInA))

\* C30: the execution of a ReadFile action, with or without success,
\* leaves the filesystem, the history and the pending actions as they were
C30_ReadFileChangesNothing ==
    [][ Executes("ReadFile") =>
            UNCHANGED <<fs, conversationHistory, pendingActions>> ]_vars

\* C30 witness: during a SendMessage with actions pending, a ReadFile read
\* the file a CreateFile of the same reply had written
C30_Witness ==
    /\ apc = "executing"
    /\ pendingActions # <<>>
    /\ \E k \in 1..Len(executeLog) :
          /\ actions[executeLog[k].index].type = "ReadFile"
          /\ executeLog[k].err = NilErr
    /\ IsFile(fs, Join(WorkDir, PathA))

(***************************************************************************)
(* Properties of the pending store and of the conversation history.        *)
(***************************************************************************)
\* C31: in manual mode, once SendMessage has returned nil the pending
\* actions are exactly the actions extracted from the response of this
\* call; after a response without actions nothing of an earlier response
\* is left pending
C31_PendingIsLatestExtraction ==
    (apc = "returned" /\ sendErr = ReturnNil /\ ~autoExecuteActions) =>
        pendingActions = ActionsOf(Extracted)

\* the roles of the history alternate, the first one being the user's,
\* and every user message has its assistant message
Alternates(history) ==
    /\ Len(history) % 2 = 0
    /\ \A k \in 1..Len(history) :
          history[k].Role = IF k % 2 = 1 THEN "user" ELSE "assistant"

\* C38: between two interactions the conversation history alternates
\* between user and assistant messages, beginning with a user message,
\* also after an interaction that failed or was cancelled
C38_HistoryAlternates ==
    apc \in {"idle", "returned"} => Alternates(conversationHistory)

(***************************************************************************)
(* Properties of Parse on nested markup and on marked code blocks.         *)
(***************************************************************************)
\* the entry e was matched inside the element of the create_file entry c
Inside(e, c) ==
    /\ c.pass = "create_file"
    /\ e.at > c.at
    /\ e.at < Match(createFileRegex, response, c.at).end

\* C33: Parse returns one action per action element of the text; markup
\* that stands inside a create_file element, a nested action tag or a
\* fenced JSON block of the file's content, yields no action of its own
C33_ContentNotExtracted ==
    \A c \in 1..Len(parses) : \A j, k \in 1..Len(parses[c]) :
        ~Inside(parses[c][k], parses[c][j])

\* C36: within one call of Parse the CreateFile actions of the marked code
\* blocks have pairwise distinct paths
C36_MarkedPathsDistinct ==
    \A c \in 1..Len(parses) : \A j, k \in 1..Len(parses[c]) :
        (/\ j # k
         /\ parses[c][j].pass = "fenced"
         /\ parses[c][k].pass = "fenced") =>
            parses[c][j].action.Path # parses[c][k].action.Path

(***************************************************************************)
(* Properties of RunREPL.                                                  *)
(***************************************************************************)
\* a step in which an action of the model's reply takes effect: it is
\* executed, writes to the filesystem or starts a process
TakesEffect ==
    \/ fs' # fs
    \/ Len(spawned') > Len(spawned)
    \/ Len(executeLog') > Len(executeLog)

\* C32: auto-execution is off in a new agent and changes only by /auto;
\* while it is off no SendMessage executes an action: an action takes
\* effect only during /execute or during a SendMessage with auto-execution
\* switched on
C32_ManualUnlessSwitchedOn ==
    /\ ~autoExecuteActions
    /\ [][ /\ autoExecuteActions' # autoExecuteActions =>
                (rpc = "command" /\ Fields(input)[1] = <<"/auto">>)
           /\ TakesEffect =>
                (rpc = "execute" \/ (rpc = "send" /\ autoExecuteActions)) ]_vars

\* C32 witness: with auto-execution off SendMessage has returned nil; the
\* actions of the reply are pending and none of them was executed
C32_Witness ==
    /\ rpc = "send"
    /\ apc = "returned"
    /\ sendErr = ReturnNil
    /\ ~autoExecuteActions
    /\ fullResponse = SegCommand \o SegModify
    /\ Len(pendingActions) = 2
    /\ pendingActions = ActionsOf(Extracted)
    /\ executeLog = <<>>
    /\ spawned = <<>>
    /\ pc = "idle"

\* C34: an interaction that fails because of an error chunk of the backend
\* is reported as an error whatever the text of the chunk, and the loop
\* reports an interruption only when the context of the interaction was
\* cancelled
C34_ErrorChunkReportedAsError ==
    [][ (rpc = "send" /\ apc = "returned" /\ rpc' = "read") =>
            /\ (sendErr.kind = "failed to stream chat"
                    /\ streamErr.kind = "stream error") => report' = "error"
            /\ report' = "interrupted" => ctxSeq \in cancelledCtxs ]_vars

\* C35: ExecuteActions runs under the context of the interaction, also
\* when /execute calls it: once the cancel function of the iteration's
\* context was called, the context ExecuteActions holds is cancelled
C35_ExecutionUnderInteractionContext ==
    (pc = "loop" /\ ctxSeq \in cancelledCtxs) => ctxCancelled

\* C37: /execute never executes an action that was executed with success
\* before: the pending actions hold no action already applied
C37_AppliedNotExecutedAgain ==
    rpc = "execute" => Succeeded \cap applied = {}

\* C39: an interrupt that arrives while the loop waits for input cancels
\* no interaction that a later line starts: the cancel function the
\* goroutine calls for it belongs to a context made before the signal
C39_IdleInterruptSparesNextLine ==
    [][ (gpc = "call" /\ gpc' = "wait" /\ gSig.idle) =>
            currentCancel <= gSig.seq ]_vars

====
